---------------------------- MODULE Spec2Model ----------------------------
(***************************************************************************)
(* A model of three parts of the DNS stack:                                *)
(*   - the chained authority catalog (LookupControlFlow arbitration over   *)
(*     an ordered list of authorities),                                    *)
(*   - the message codec's record reading and message emission.            *)
(* Each part has its own specification (SpecCatalog, SpecMsg); the         *)
(* variables of the other part keep their initial value.                   *)
(***************************************************************************)
EXTENDS Integers, Sequences, FiniteSets, TLC

VARIABLES
    \* ---- chained catalog: one request against one authority chain ----
    chain,           \* the selected chain: a sequence of authority kinds
    qname,           \* the query name of the request
    pc,              \* position of the catalog lookup for this request
    idx,             \* index of the authority called next
    lookup_result,   \* the current LookupControlFlow of the chain
    producer_index,  \* index of the authority whose search was kept, 0 = none
    signer,          \* the Option<ResponseSigner> currently selected
    calls,           \* history: every search / consult call made, in order
    responses,       \* the response messages sent for the request
    \* ---- message codec: one message decoded, then encoded ----
    dnssec,          \* whether the build has the __dnssec feature
    wire,            \* the message received, in wire form
    message,         \* the Message decoded from it (or the decode error)
    mode,            \* the EncodeMode of the encoder
    max_size,        \* the encoder's maximum size, in units of record size
    encoded,         \* the message emitted, in wire form (or the error)
    reread,          \* the Message decoded from the message emitted
    mpc,             \* position of the codec run
    \* ---- resource record set: one RecordSet and the calls made on it ----
    rrset,           \* the RecordSet
    last_call,       \* the last call made on it, its result and the set before
    rpc,             \* "idle", "live", or "panicked" after a failed assertion
    newest,          \* the record inserted last, and the set_ttl call since
    \* ---- lookup options: the records of a set as a lookup returns them ----
    request_edns,    \* the EDNS of the request, if any
    lookup_options,  \* the LookupOptions made for the request
    records_iter,    \* the RrsetRecords iterator
    yielded,         \* the records the iterator has yielded so far
    opc,             \* position of the lookup: "idle", "options", "iter", "done"
    \* ---- DNS over HTTP/3: one exchange, and the handles of a connection ----
    http_response,   \* the HTTP response the server sends
    response_bytes,  \* the body bytes received so far
    body_pos,        \* the data frames of the body taken from the stream
    send_result,     \* what inner_send returned
    hpc,             \* position of inner_send
    handles,         \* the H3ClientStream handles of the connection
    tx_closed,       \* whether the shutdown channel of the connection is closed
    shut_called,     \* history: the handles on which shutdown() was called
    h_call,          \* the last call made on a handle and what it returned
    transmitted,     \* the number of requests handed to the connection
    spc              \* "idle", "live", or "panicked"

cvars == <<chain, qname, pc, idx, lookup_result, producer_index, signer, calls, responses>>

mvars == <<dnssec, wire, message, mode, max_size, encoded, reread, mpc>>

rvars == <<rrset, last_call, rpc, newest>>

ovars == <<request_edns, lookup_options, records_iter, yielded, opc>>

hvars == <<http_response, response_bytes, body_pos, send_result, hpc,
           handles, tx_closed, shut_called, h_call, transmitted, spc>>

vars == <<cvars, mvars, rvars, ovars, hvars>>

-----------------------------------------------------------------------------
(* Bounds of the model *)

\* longest chain of generic authorities
MaxChain == 3

\* most records in the body of a received message
MaxRecs == 3

\* the most queries of a message to be signed
MaxQueries == 2

\* the most RRSIGs added to a record set, and the number of different data
\* of the records of a type
MaxRrsigs == 1

MaxRdata == 2

\* the width of an SOA serial, scaled down from the 32 bits of u32
SerialBits == 3

\* most bytes in the body of an HTTP/3 response
MaxBody == 3

\* most handles (clones) of one HTTP/3 connection
MaxHandles == 2

\* most requests handed to an HTTP/3 connection
MaxSends == 2

-----------------------------------------------------------------------------
(* LookupControlFlow<AuthLookup, LookupError> and its payloads *)

\* AuthLookup / LookupError payloads are records [k, src, n]:
\*   k = "Records" (with the data identified by src, n), "Empty",
\*   or an error kind: "NXDomain" = LookupError::ResponseCode(NXDomain),
\*   "ServFail" = LookupError::ResponseCode(ServFail), "Io" = any other error.
NoVal == [k |-> "None", src |-> "", n |-> 0]

Records(src, n) == [k |-> "Records", src |-> src, n |-> n]

Empty == [k |-> "Empty", src |-> "", n |-> 0]

LookupErr(kind) == [k |-> kind, src |-> "", n |-> 0]

Ok(v) == [ok |-> TRUE, val |-> v]

Err(e) == [ok |-> FALSE, val |-> e]

Continue(r) == [cf |-> "Continue", ok |-> r.ok, val |-> r.val]

Break(r) == [cf |-> "Break", ok |-> r.ok, val |-> r.val]

Skip == [cf |-> "Skip", ok |-> FALSE, val |-> NoVal]

\* Option: <<>> is None, <<x>> is Some(x)
None == <<>>

Some(x) == <<x>>

is_break_as_continue(f) == f.cf = "Continue"

is_break(f) == f.cf = "Break"

map_result_break_dropped(f) ==
    IF f.cf = "Continue" THEN Some([ok |-> f.ok, val |-> f.val]) ELSE None

map_result(f) ==
    IF f.cf = "Skip" THEN None
    ELSE Some([ok |-> f.ok, val |-> f.val])

DefaultConsult_as_skip(last_result) == <<Skip, None>>

\* Authority::consult as provided by the trait: (last_result, None)
DefaultConsult(last_result) == <<last_result, None>>

-----------------------------------------------------------------------------
(* The test authorities of chained_authority_test *)

all_zeros == 0
pri_lookup_ip == 1
sec_lookup_ip == 2
sec_consult_ip == 3

TestNames == {"primaryonly", "primaryerr", "breakerr", "continueboth",
              "overwrite", "breakok", "skipboth", "skipprimary"}

\* a table entry: name and action; action <<>> is None, <<type, ip>> is Some
Entry(name, action) == [name |-> name, action |-> action]

pri_lookup_records == <<
    Entry("primaryonly", <<"ContinueOk", pri_lookup_ip>>),
    Entry("primaryerr", <<"ContinueErr", all_zeros>>),
    Entry("breakerr", <<"BreakErr", all_zeros>>),
    Entry("continueboth", <<"ContinueOk", pri_lookup_ip>>),
    Entry("overwrite", <<"ContinueOk", pri_lookup_ip>>),
    Entry("breakok", <<"BreakOk", pri_lookup_ip>>),
    Entry("skipboth", <<"Skip", all_zeros>>),
    Entry("skipprimary", <<"Skip", all_zeros>>) >>

pri_consult_records == <<
    Entry("breakok", <<>>),
    Entry("overwrite", <<>>) >>

sec_lookup_records == <<
    Entry("continueboth", <<"ContinueOk", sec_lookup_ip>>),
    Entry("breakok", <<"BreakOk", sec_lookup_ip>>),
    Entry("skipboth", <<"Skip", all_zeros>>),
    Entry("skipprimary", <<"ContinueOk", sec_lookup_ip>>) >>

sec_consult_records == <<
    Entry("breakok", <<>>),
    Entry("overwrite", <<"ContinueOk", sec_consult_ip>>),
    Entry("primaryerr", <<"ContinueOk", sec_consult_ip>>),
    Entry("breakerr", <<"ContinueOk", sec_consult_ip>>) >>

lookup_records(a) == IF a = "pri" THEN pri_lookup_records ELSE sec_lookup_records

consult_records(a) == IF a = "pri" THEN pri_consult_records ELSE sec_consult_records

\* the LookupControlFlow a ResponseType stands for
ResponseFlow(response_type, ip) ==
    CASE response_type = "ContinueOk" -> Continue(Ok(Records("ip", ip)))
      [] response_type = "BreakOk" -> Break(Ok(Records("ip", ip)))
      [] response_type = "ContinueErr" -> Continue(Err(LookupErr("NXDomain")))
      [] response_type = "BreakErr" -> Break(Err(LookupErr("NXDomain")))
      [] OTHER -> Skip

\* inner_lookup: the first entry for the name decides.  "NoMatch" is the
\* function's None, "Panic" the panic on a None action.
inner_lookup(name, records) ==
    LET hits == {i \in 1..Len(records) : records[i].name = name} IN
    IF hits = {} THEN [kind |-> "NoMatch", flow |-> Skip]
    ELSE LET first == CHOOSE i \in hits : \A j \in hits : i <= j
             action == records[first].action
         IN IF action = <<>> THEN [kind |-> "Panic", flow |-> Skip]
            ELSE [kind |-> "Found", flow |-> ResponseFlow(action[1], action[2])]


\* what one call of an authority method yields: a panic, or (flow, signer)
Outcome(flow, sig) == [panic |-> FALSE, flow |-> flow, sig |-> sig]

Panicked == [panic |-> TRUE, flow |-> Skip, sig |-> None]

\* TestAuthority::lookup: panics when the table has no entry for the name
TestAuthority_lookup(a, name) ==
    LET res == inner_lookup(name, lookup_records(a)) IN
    IF res.kind = "Found" THEN Outcome(res.flow, None) ELSE Panicked

\* TestAuthority::search: (lookup(..), None); the request of the test always
\* carries exactly one query, so request_info() succeeds
TestAuthority_search(a, name) == TestAuthority_lookup(a, name)

TestAuthority_consult_strict(a, name, last_result) ==
    LET res == inner_lookup(name, consult_records(a)) IN
    IF res.kind = "Found" THEN Outcome(res.flow, None) ELSE Panicked

\* TestAuthority::consult: no entry for the name returns (last_result, None)
TestAuthority_consult(a, name, last_result) ==
    LET res == inner_lookup(name, consult_records(a)) IN
    CASE res.kind = "NoMatch" -> Outcome(last_result, None)
      [] res.kind = "Panic" -> Panicked
      [] OTHER -> Outcome(res.flow, None)

-----------------------------------------------------------------------------
(* Any other implementation of the Authority trait: search and consult may *)
(* return every LookupControlFlow, with or without a ResponseSigner.       *)

GenResults(src, i) ==
    { Ok(Records(src, i)), Ok(Empty),
      Err(LookupErr("NXDomain")), Err(LookupErr("Io")) }

GenFlows(src, i) ==
    {Skip} \cup {Continue(r) : r \in GenResults(src, i)}
           \cup {Break(r) : r \in GenResults(src, i)}

GenSigners(src, i) == {None, Some(<<src, i>>)}

-----------------------------------------------------------------------------
(* RecursiveAuthority: a recursor wrapped as an authority.                 *)

\* AuthLookup::Response: the message the recursor resolved
Response(i) == [k |-> "Response", src |-> "rec", n |-> i]

\* what Recursor::resolve returns: a response, or an error
ResolveResults(i) ==
    {Ok(Response(i)), Err(LookupErr("NXDomain")), Err(LookupErr("Io"))}

RecursiveAuthority_lookup_break_on_error(result) ==
    IF result.ok THEN Continue(Ok(result.val)) ELSE Break(Err(result.val))

\* RecursiveAuthority::lookup, given what the recursor resolved
RecursiveAuthority_lookup(result) ==
    IF result.ok THEN Continue(Ok(result.val)) ELSE Continue(Err(result.val))

\* RecursiveAuthority::search: a request without its one query ends the
\* chain, any other is looked up; no signer either way
RecursiveAuthority_search(request_info_ok, result) ==
    IF ~request_info_ok THEN Outcome(Break(Err(LookupErr("Io"))), None)
    ELSE Outcome(RecursiveAuthority_lookup(result), None)

\* RecursiveAuthority does not override consult
RecursiveAuthority_consult(last_result) ==
    Outcome(DefaultConsult(last_result)[1], DefaultConsult(last_result)[2])

\* Authority::search of the authority at position i of the chain; the chain
\* was selected by the query name of the request, so request_info() succeeds
SearchOutcomes(a, i, name) ==
    IF a = "gen"
    THEN {Outcome(f, s) : f \in GenFlows("search", i), s \in GenSigners("search", i)}
    ELSE IF a = "rec"
    THEN {RecursiveAuthority_search(TRUE, r) : r \in ResolveResults(i)}
    ELSE {TestAuthority_search(a, name)}

\* Authority::consult of the authority at position j of the chain
ConsultOutcomes(a, j, name, last_result) ==
    IF a = "gen"
    THEN {Outcome(f, s) : f \in GenFlows("consult", j), s \in GenSigners("consult", j)}
         \cup {Outcome(DefaultConsult(last_result)[1], DefaultConsult(last_result)[2])}
    ELSE IF a = "rec"
    THEN {RecursiveAuthority_consult(last_result)}
    ELSE {TestAuthority_consult(a, name, last_result)}

-----------------------------------------------------------------------------
(* The chained catalog: the algorithm for a single chain *)

\* step 3: every search returned Skip
AllSkipResult == Continue(Err(LookupErr("ServFail")))

\* step 2: the search loop goes on while the result is Skip
SearchContinues_unless_break(flow) == flow.cf # "Break"

SearchContinues(flow) == flow.cf = "Skip"

ConsultMerge_skip_overwrites(prior, new) == new

ConsultMerge_keeps_ok(prior, new) ==
    IF new.cf = "Skip" \/ (prior.ok /\ new.cf = "Continue") THEN prior ELSE new

\* step 5: what a consult's return value does to the current result
ConsultMerge(prior, new) == IF new.cf = "Skip" THEN prior ELSE new

SignerMerge_latest(prior, new) == new

\* step 5: the most recent non-None signer wins
SignerMerge(prior, new) == IF new = None THEN prior ELSE new

NextConsultIndex_with_producer(j, producer, n) ==
    IF j + 1 <= n THEN j + 1 ELSE 0

\* step 5: the next authority to consult after position j, 0 when none is left
NextConsultIndex(j, producer, n) ==
    LET left == {k \in (j + 1)..n : k # producer} IN
    IF left = {} THEN 0 ELSE CHOOSE k \in left : \A m \in left : k <= m

\* step 6: the response message for the final result
BuildResponse(result, sg) ==
    LET r == map_result(result) IN
    IF r = None THEN [rcode |-> "ServFail", answers |-> <<>>, signer |-> sg]
    ELSE IF r[1].ok
         THEN [rcode |-> "NoError",
               answers |-> IF r[1].val.k \in {"Records", "Response"}
                           THEN <<r[1].val>> ELSE <<>>,
               signer |-> sg]
         ELSE [rcode |-> IF r[1].val.k = "NXDomain" THEN "NXDomain" ELSE "ServFail",
               answers |-> <<>>,
               signer |-> sg]

Call(op, i, prev, o) == [op |-> op, idx |-> i, prev |-> prev, out |-> o.flow, sig |-> o.sig]

\* the request is answered with the final result
Finish(result, sg) ==
    /\ pc' = "done"
    /\ idx' = 0
    /\ responses' = Append(responses, BuildResponse(result, sg))

\* steps 4 and 5: a Break is returned at once, a Continue goes to the
\* consult phase, which starts after position j
Proceed(result, sg, j, producer) ==
    IF is_break(result)
    THEN Finish(result, sg)
    ELSE LET k == NextConsultIndex(j, producer, Len(chain)) IN
         IF k = 0 THEN Finish(result, sg)
         ELSE /\ pc' = "consult"
              /\ idx' = k
              /\ responses' = responses

\* step 2: the search of the authority at position idx
Search ==
    /\ pc = "search"
    /\ \E o \in SearchOutcomes(chain[idx], idx, qname) :
        IF o.panic
        THEN /\ pc' = "panicked"
             /\ UNCHANGED <<chain, qname, idx, lookup_result, producer_index,
                            signer, calls, responses, mvars, rvars, ovars, hvars>>
        ELSE /\ calls' = Append(calls, Call("search", idx, Skip, o))
             /\ UNCHANGED <<chain, qname, mvars, rvars, ovars, hvars>>
             /\ IF SearchContinues(o.flow)
                THEN IF idx < Len(chain)
                     THEN /\ idx' = idx + 1
                          /\ UNCHANGED <<pc, lookup_result, producer_index,
                                         signer, responses>>
                     ELSE /\ lookup_result' = AllSkipResult
                          /\ UNCHANGED <<producer_index, signer>>
                          /\ Proceed(AllSkipResult, signer, 0, 0)
                ELSE /\ lookup_result' = o.flow
                     /\ producer_index' = idx
                     /\ signer' = o.sig
                     /\ Proceed(o.flow, o.sig, 0, idx)

\* step 5: the consult of the authority at position idx
Consult ==
    /\ pc = "consult"
    /\ \E o \in ConsultOutcomes(chain[idx], idx, qname, lookup_result) :
        IF o.panic
        THEN /\ pc' = "panicked"
             /\ UNCHANGED <<chain, qname, idx, lookup_result, producer_index,
                            signer, calls, responses, mvars, rvars, ovars, hvars>>
        ELSE LET merged == ConsultMerge(lookup_result, o.flow)
                 sg == SignerMerge(signer, o.sig)
             IN /\ calls' = Append(calls, Call("consult", idx, lookup_result, o))
                /\ lookup_result' = merged
                /\ signer' = sg
                /\ UNCHANGED <<chain, qname, producer_index, mvars, rvars, ovars, hvars>>
                /\ IF is_break(o.flow)
                   THEN Finish(merged, sg)
                   ELSE Proceed(merged, sg, idx, producer_index)

GenChains == {[i \in 1..n |-> "gen"] : n \in 1..MaxChain}

\* the codec is not used
\* no record set is in use
RRsetIdle ==
    /\ rrset = [tag |-> "None"]
    /\ last_call = [op |-> "none"]
    /\ rpc = "idle"
    /\ newest = [tag |-> "None"]

\* no lookup is made
LookupIdle ==
    /\ request_edns = <<>>
    /\ lookup_options = [dnssec_ok |-> FALSE]
    /\ records_iter = [tag |-> "Empty", rest |-> <<>>]
    /\ yielded = <<>>
    /\ opc = "idle"

\* no HTTP/3 connection is in use
H3Idle ==
    /\ http_response = [tag |-> "None"]
    /\ response_bytes = 0
    /\ body_pos = 0
    /\ send_result = [tag |-> "None"]
    /\ hpc = "idle"
    /\ handles = <<>>
    /\ tx_closed = FALSE
    /\ shut_called = {}
    /\ h_call = [op |-> "none"]
    /\ transmitted = 0
    /\ spc = "idle"

CodecIdle ==
    /\ dnssec = FALSE
    /\ wire = [tag |-> "None"]
    /\ message = [tag |-> "None"]
    /\ mode = "Normal"
    /\ max_size = 0
    /\ encoded = [tag |-> "None"]
    /\ reread = [tag |-> "None"]
    /\ mpc = "idle"

InitCatalog ==
    /\ LookupIdle
    /\ H3Idle
    /\ CodecIdle
    /\ RRsetIdle
    /\ \/ chain = <<"pri", "sec">> /\ qname \in TestNames
       \/ chain \in GenChains /\ qname = "any"
    /\ pc = "search"
    /\ idx = 1
    /\ lookup_result = Skip
    /\ producer_index = 0
    /\ signer = None
    /\ calls = <<>>
    /\ responses = <<>>

NextCatalog == Search \/ Consult

SpecCatalog == InitCatalog /\ [][NextCatalog]_vars

\* the chains that hold a recursor
RecChains ==
    {c \in UNION {[1..n -> {"gen", "rec"}] : n \in 1..MaxChain} :
        \E i \in DOMAIN c : c[i] = "rec"}

InitRecursor ==
    /\ LookupIdle
    /\ H3Idle
    /\ CodecIdle
    /\ RRsetIdle
    /\ chain \in RecChains /\ qname = "any"
    /\ pc = "search"
    /\ idx = 1
    /\ lookup_result = Skip
    /\ producer_index = 0
    /\ signer = None
    /\ calls = <<>>
    /\ responses = <<>>

SpecRecursor == InitRecursor /\ [][NextCatalog]_vars


-----------------------------------------------------------------------------
(* Properties of the chained catalog *)

Answered == pc = "done" /\ Len(responses) = 1

SearchCalls == SelectSeq(calls, LAMBDA c : c.op = "search")

ConsultCalls == SelectSeq(calls, LAMBDA c : c.op = "consult")

\* a consult that returned what it was given, or Skip, replaces nothing
PassThrough(c) == c.out = c.prev \/ c.out.cf = "Skip"

\* C1: once a search or a consult has returned Break, no further search or
\* consult is called on any authority, and the response is built from that
\* Break value; the test's breakok / breakerr queries never reach a consult
\* (whose table entry would panic).
C1_BreakTerminality ==
    /\ \A k \in 1..Len(calls) :
        calls[k].out.cf = "Break" =>
            /\ k = Len(calls)
            /\ Answered
            /\ lookup_result = calls[k].out
            /\ responses[1].rcode =
                 (IF calls[k].out.ok THEN "NoError"
                  ELSE IF calls[k].out.val.k = "NXDomain" THEN "NXDomain"
                  ELSE "ServFail")
            /\ responses[1].answers =
                 (IF calls[k].out.ok /\ calls[k].out.val.k = "Records"
                  THEN <<calls[k].out.val>> ELSE <<>>)
    /\ qname \in {"breakok", "breakerr"} => pc # "panicked"

\* chain [A, B, C], A.search = Break(Ok(X)): one call, the response holds X
C1_Witness ==
    /\ Len(chain) = 3
    /\ pc = "done"
    /\ Len(calls) = 1
    /\ calls[1].out = Break(Ok(Records("search", 1)))
    /\ responses[1].answers = <<Records("search", 1)>>

\* C2: chain [A, B], A.search = Skip, B.search = Continue(Ok(Y)): A.consult
\* is called with Continue(Ok(Y)) as the previous result, and (A's consult
\* returning what it was given, as in the test, or Skip) the response
\* contains Y; the test's skipprimary query is answered with B's record.
C2_SkipTransparency ==
    /\ ( /\ Len(chain) = 2
         /\ pc = "done"
         /\ Len(calls) >= 2
         /\ calls[1].op = "search" /\ calls[1].out.cf = "Skip"
         /\ calls[2].op = "search" /\ calls[2].out.cf = "Continue"
         /\ calls[2].out.ok /\ calls[2].out.val.k = "Records" )
       => /\ Len(calls) = 3
          /\ calls[3].op = "consult"
          /\ calls[3].idx = 1
          /\ calls[3].prev = calls[2].out
          /\ PassThrough(calls[3]) =>
               /\ responses[1].rcode = "NoError"
               /\ responses[1].answers = <<calls[2].out.val>>
    /\ qname = "skipprimary" =>
          /\ pc # "panicked"
          /\ pc = "done" =>
               /\ responses[1].rcode = "NoError"
               /\ responses[1].answers = <<Records("ip", sec_lookup_ip)>>

C2_Witness ==
    /\ qname = "skipprimary"
    /\ pc = "done"
    /\ Len(calls) = 3
    /\ calls[1].out.cf = "Skip"
    /\ calls[3].op = "consult" /\ calls[3].idx = 1
    /\ calls[3].prev = Continue(Ok(Records("ip", sec_lookup_ip)))
    /\ responses[1].answers = <<Records("ip", sec_lookup_ip)>>

\* C3: if the search of every authority of the chain returns Skip, the
\* response code is ServFail and the answer section is empty, whatever the
\* consult methods would return.
C3_AllSkipServFail ==
    ( /\ pc = "done"
      /\ Len(SearchCalls) = Len(chain)
      /\ \A k \in 1..Len(SearchCalls) : SearchCalls[k].out.cf = "Skip" )
    => /\ responses[1].rcode = "ServFail"
       /\ responses[1].answers = <<>>


\* C4: a Continue returned by a consult replaces the current result,
\* whatever the two carry (Ok or Err): the next call sees it as the previous
\* result and, being the last call, the response is built from it; the
\* test's overwrite and primaryerr queries are answered NOERROR with the
\* secondary's consult record.
C4_ConsultOverwrite ==
    /\ \A k \in 1..Len(calls) :
        (calls[k].op = "consult" /\ calls[k].out.cf = "Continue") =>
            /\ k < Len(calls) => calls[k + 1].prev = calls[k].out
            /\ k = Len(calls) => lookup_result = calls[k].out
            /\ (k = Len(calls) /\ pc = "done") =>
                 /\ responses[1].rcode =
                      (IF calls[k].out.ok THEN "NoError"
                       ELSE IF calls[k].out.val.k = "NXDomain" THEN "NXDomain"
                       ELSE "ServFail")
                 /\ responses[1].answers =
                      (IF calls[k].out.ok /\ calls[k].out.val.k = "Records"
                       THEN <<calls[k].out.val>> ELSE <<>>)
    /\ qname \in {"overwrite", "primaryerr"} =>
          /\ pc # "panicked"
          /\ pc = "done" =>
               /\ responses[1].rcode = "NoError"
               /\ responses[1].answers = <<Records("ip", sec_consult_ip)>>

\* Continue(Err) from the producer, Continue(Ok(Z)) from the consult
C4_Witness ==
    /\ qname = "primaryerr"
    /\ pc = "done"
    /\ Len(calls) = 2
    /\ calls[1].out = Continue(Err(LookupErr("NXDomain")))
    /\ calls[2].op = "consult"
    /\ calls[2].out = Continue(Ok(Records("ip", sec_consult_ip)))
    /\ responses[1].rcode = "NoError"

\* the authorities whose search returned a non-Skip value
Producers == {calls[k].idx : k \in {m \in 1..Len(calls) :
                  calls[m].op = "search" /\ calls[m].out.cf # "Skip"}}

Consulted == {ConsultCalls[k].idx : k \in 1..Len(ConsultCalls)}

\* C5: the authority whose search produced the primary result is never
\* consulted; the consult phase calls consult on the other authorities in
\* declaration order, leaving none out, and on all of them when it runs to
\* its end (no Break).
C5_ProducerNotConsulted ==
    /\ Consulted \cap Producers = {}
    /\ \A k, m \in 1..Len(ConsultCalls) :
          k < m => ConsultCalls[k].idx < ConsultCalls[m].idx
    /\ \A j \in Consulted : \A i \in 1..(j - 1) :
          i \notin Producers => i \in Consulted
    /\ ( /\ pc = "done"
         /\ Producers # {}
         /\ \A k \in 1..Len(calls) : calls[k].out.cf # "Break" )
       => Consulted = (1..Len(chain)) \ Producers

C5_Witness ==
    /\ Len(chain) = 3
    /\ pc = "done"
    /\ producer_index = 2
    /\ Producers = {2}
    /\ Len(ConsultCalls) = 2
    /\ ConsultCalls[1].idx = 1
    /\ ConsultCalls[2].idx = 3

\* C6: search is called on the authorities in declaration order, before any
\* consult, and on no authority after the first one that returned a non-Skip
\* value; with no consult replacing the result the producer's data is the
\* answer (the test's continueboth query returns the primary's record).
C6_SearchOrder ==
    /\ \A k \in 1..Len(calls) : calls[k].op = "search" => calls[k].idx = k
    /\ \A k, m \in 1..Len(calls) :
          ( /\ k < m
            /\ calls[k].op = "search"
            /\ calls[k].out.cf # "Skip" ) => calls[m].op # "search"
    /\ \A k \in 1..Len(calls) :
          ( /\ calls[k].op = "search"
            /\ calls[k].out.cf # "Skip"
            /\ calls[k].out.ok /\ calls[k].out.val.k = "Records"
            /\ pc = "done"
            /\ \A m \in 1..Len(ConsultCalls) : PassThrough(ConsultCalls[m]) )
          => responses[1].answers = <<calls[k].out.val>>
    /\ qname = "continueboth" =>
          /\ pc # "panicked"
          /\ pc = "done" =>
               responses[1].answers = <<Records("ip", pri_lookup_ip)>>

C6_Witness ==
    /\ qname = "continueboth"
    /\ pc = "done"
    /\ Len(SearchCalls) = 1
    /\ SearchCalls[1].idx = 1
    /\ Len(ConsultCalls) = 1
    /\ responses[1].answers = <<Records("ip", pri_lookup_ip)>>

\* C7: the final result maps to the response code: Ok gives NOERROR (the
\* records as answers for Records, no answer for Empty), Err with
\* ResponseCode NXDomain gives NXDOMAIN without answers, every other Err
\* gives ServFail; exactly one response is sent per request, none before the
\* lookup has finished.
C7_ResultToRcode ==
    /\ pc = "done" =>
          /\ Len(responses) = 1
          /\ lookup_result.cf \in {"Continue", "Break"}
          /\ (lookup_result.ok /\ lookup_result.val.k = "Records") =>
                /\ responses[1].rcode = "NoError"
                /\ responses[1].answers = <<lookup_result.val>>
          /\ (lookup_result.ok /\ lookup_result.val.k = "Empty") =>
                /\ responses[1].rcode = "NoError"
                /\ responses[1].answers = <<>>
          /\ (~lookup_result.ok /\ lookup_result.val.k = "NXDomain") =>
                /\ responses[1].rcode = "NXDomain"
                /\ responses[1].answers = <<>>
          /\ (~lookup_result.ok /\ lookup_result.val.k # "NXDomain") =>
                /\ responses[1].rcode = "ServFail"
                /\ responses[1].answers = <<>>
    /\ pc # "done" => responses = <<>>
    /\ (chain[1] = "gen" \/ qname = "breakerr") => pc # "panicked"

\* the test's breakerr query: Break(Err(NXDomain)) answered NXDOMAIN
C7_Witness ==
    /\ qname = "breakerr"
    /\ pc = "done"
    /\ lookup_result = Break(Err(LookupErr("NXDomain")))
    /\ Len(responses) = 1
    /\ responses[1].rcode = "NXDomain"
    /\ responses[1].answers = <<>>

\* the signer of the last call of the sequence that returned Some
RECURSIVE LastSome(_)
LastSome(cs) ==
    IF cs = <<>> THEN None
    ELSE IF cs[Len(cs)].sig # None THEN cs[Len(cs)].sig
    ELSE LastSome(SubSeq(cs, 1, Len(cs) - 1))

KeptCalls == SelectSeq(calls, LAMBDA c : c.op = "consult" \/ c.out.cf # "Skip")

-----------------------------------------------------------------------------
(* The message codec.  A record is its type and its data; on the wire a    *)
(* message is its header, its queries and its records one after another.   *)

Rec(t, d) == [rtype |-> t, rd |-> d]

\* the records a received message may hold; the data of an OPT record is
\* its extended RCODE (the high bits)
WireRecords ==
    {Rec("A", 1), Rec("A", 2), Rec("OPT", 0), Rec("OPT", 1),
     Rec("SIG", 0), Rec("TSIG", 0)}

\* MessageSignature
Unsigned == [tag |-> "Unsigned", rec |-> Rec("", 0)]

Sig0(record) == [tag |-> "Sig0", rec |-> record]

Tsig(record) == [tag |-> "Tsig", rec |-> record]

\* Edns from an OPT record, and the OPT record of an Edns
EdnsFromRecord(record) == [rcode_high |-> record.rd]

RecordFromEdns(edns) == Rec("OPT", edns.rcode_high)

\* what read_records returns: an error, or (records, edns, sig) with the
\* decoder left at rest
ReadErr == [err |-> TRUE, records |-> <<>>, edns |-> None, sig |-> Unsigned,
            rest |-> <<>>]

ReadOk(records, edns, sig, rest) ==
    [err |-> FALSE, records |-> records, edns |-> edns, sig |-> sig, rest |-> rest]

read_record_unchecked(st, record, is_additional, has_dnssec) ==
    IF ~is_additional /\ record.rtype \in {"OPT", "SIG", "TSIG"} THEN ReadErr
    ELSE IF ~is_additional
    THEN [st EXCEPT !.records = Append(@, record)]
    ELSE CASE record.rtype = "SIG" /\ has_dnssec -> [st EXCEPT !.sig = Sig0(record)]
           [] record.rtype = "TSIG" /\ has_dnssec -> [st EXCEPT !.sig = Tsig(record)]
           [] record.rtype = "OPT" ->
                IF st.edns # None THEN ReadErr
                ELSE [st EXCEPT !.edns = Some(EdnsFromRecord(record))]
           [] OTHER -> [st EXCEPT !.records = Append(@, record)]

read_record_resigned(st, record, is_additional, has_dnssec) ==
    IF st.sig # Unsigned /\ record.rtype \notin {"SIG", "TSIG"} THEN ReadErr
    ELSE read_record_unchecked(st, record, is_additional, has_dnssec)

read_record_opt_only(st, record, is_additional, has_dnssec) ==
    IF st.sig # Unsigned THEN ReadErr
    ELSE IF ~is_additional /\ record.rtype \in {"OPT"} THEN ReadErr
    ELSE IF ~is_additional
    THEN [st EXCEPT !.records = Append(@, record)]
    ELSE read_record_unchecked(st, record, is_additional, has_dnssec)

read_record_last_opt(st, record, is_additional, has_dnssec) ==
    IF st.sig # Unsigned THEN ReadErr
    ELSE IF is_additional /\ record.rtype = "OPT"
    THEN [st EXCEPT !.edns = Some(EdnsFromRecord(record))]
    ELSE read_record_unchecked(st, record, is_additional, has_dnssec)

read_record_prepend(st, record, is_additional, has_dnssec) ==
    LET r == read_record_unchecked([st EXCEPT !.records = <<>>], record,
                                   is_additional, has_dnssec) IN
    IF st.sig # Unsigned \/ r.err THEN ReadErr
    ELSE [r EXCEPT !.records = @ \o st.records]

\* the body of the loop of read_records, for one record read
read_record(st, record, is_additional, has_dnssec) ==
    IF st.sig # Unsigned THEN ReadErr
    ELSE IF ~is_additional /\ record.rtype \in {"OPT", "SIG", "TSIG"} THEN ReadErr
    ELSE IF ~is_additional
    THEN [st EXCEPT !.records = Append(@, record)]
    ELSE CASE record.rtype = "SIG" /\ has_dnssec -> [st EXCEPT !.sig = Sig0(record)]
           [] record.rtype = "TSIG" /\ has_dnssec -> [st EXCEPT !.sig = Tsig(record)]
           [] record.rtype = "OPT" ->
                IF st.edns # None THEN ReadErr
                ELSE [st EXCEPT !.edns = Some(EdnsFromRecord(record))]
           [] OTHER -> [st EXCEPT !.records = Append(@, record)]

RECURSIVE read_loop(_, _, _, _)
read_loop(st, count, is_additional, has_dnssec) ==
    IF count = 0 THEN st
    ELSE IF st.rest = <<>> THEN ReadErr      \* Record::read fails: end of input
    ELSE LET st2 == read_record(st, Head(st.rest), is_additional, has_dnssec) IN
         IF st2.err THEN ReadErr
         ELSE read_loop([st2 EXCEPT !.rest = Tail(st.rest)], count - 1,
                        is_additional, has_dnssec)

\* Message::read_records
read_records(decoder, count, is_additional, has_dnssec) ==
    read_loop(ReadOk(<<>>, None, Unsigned, decoder), count, is_additional, has_dnssec)

\* Header::merge_response_code: the high bits join the low four of the header
merge_response_code(header, high_response_code) ==
    [header EXCEPT !.response_code = high_response_code * 16 + (@ % 16)]

DecodeErr == [tag |-> "Err"]

Message_read_no_merge(w, has_dnssec) ==
    LET header == w.header
        an == read_records(w.records, header.answer_count, FALSE, has_dnssec)
        ns == IF an.err THEN ReadErr
              ELSE read_records(an.rest, header.authority_count, FALSE, has_dnssec)
        ad == IF ns.err THEN ReadErr
              ELSE read_records(ns.rest, header.additional_count, TRUE, has_dnssec)
    IN IF header.query_count > Len(w.queries) \/ ad.err THEN DecodeErr
       ELSE [tag |-> "Message",
             header |-> header,
             queries |-> SubSeq(w.queries, 1, header.query_count),
             answers |-> an.records,
             authorities |-> ns.records,
             additionals |-> ad.records,
             signature |-> ad.sig,
             edns |-> ad.edns]

\* Message::read
Message_read(w, has_dnssec) ==
    LET header == w.header
        an == read_records(w.records, header.answer_count, FALSE, has_dnssec)
        ns == IF an.err THEN ReadErr
              ELSE read_records(an.rest, header.authority_count, FALSE, has_dnssec)
        ad == IF ns.err THEN ReadErr
              ELSE read_records(ns.rest, header.additional_count, TRUE, has_dnssec)
    IN IF header.query_count > Len(w.queries) \/ ad.err THEN DecodeErr
       ELSE [tag |-> "Message",
             header |-> IF ad.edns # None
                        THEN merge_response_code(header, ad.edns[1].rcode_high)
                        ELSE header,
             queries |-> SubSeq(w.queries, 1, header.query_count),
             answers |-> an.records,
             authorities |-> ns.records,
             additionals |-> ad.records,
             signature |-> ad.sig,
             edns |-> ad.edns]


\* the encoded length of a record, in units: signature records and the
\* records with the longer data are the longer ones
RecordSize(item) ==
    IF item.rtype \in {"SIG", "TSIG"} THEN 2
    ELSE IF item.rtype = "A" /\ item.rd = 2 THEN 2
    ELSE 1

\* BinEncoder::emit_all: writes the items in order while they fit; the first
\* that does not fit is rolled back and the result is the error
\* NotAllRecordsWritten { count } (truncated, below)
RECURSIVE emit_all(_, _)
emit_all(items, room) ==
    IF items = <<>>
    THEN [count |-> 0, truncated |-> FALSE, written |-> <<>>, room |-> room]
    ELSE IF RecordSize(Head(items)) > room
    THEN [count |-> 0, truncated |-> TRUE, written |-> <<>>, room |-> room]
    ELSE LET r == emit_all(Tail(items), room - RecordSize(Head(items))) IN
         [count |-> r.count + 1, truncated |-> r.truncated,
          written |-> <<Head(items)>> \o r.written, room |-> r.room]

\* nothing is emitted
emit_none(room) == [count |-> 0, truncated |-> FALSE, written |-> <<>>, room |-> room]

count_was_truncated_ignored(result) == <<result.count, FALSE>>

\* count_was_truncated: (count, false) for Ok(count), (count, true) for
\* NotAllRecordsWritten { count }
count_was_truncated(result) == <<result.count, result.truncated>>

\* update_header_counts
update_header_counts_keeps_preset(current_header, is_truncated, counts) ==
    [current_header EXCEPT !.query_count = counts.query_count,
                           !.truncated = is_truncated]

update_header_counts(current_header, is_truncated, counts) ==
    [current_header EXCEPT !.query_count = counts.query_count,
                           !.answer_count = counts.answer_count,
                           !.authority_count = counts.authority_count,
                           !.additional_count = counts.additional_count,
                           !.truncated = is_truncated]

\* ResponseCode::high
rcode_high(response_code) == response_code \div 16

\* the header as written: the header field holds the low four RCODE bits
WireHeader(header) == [header EXCEPT !.response_code = @ % 16]

EmitErr == [tag |-> "Err"]

include_signature_always(encoder_mode) == TRUE

\* include_signature: the signature record is left out when signing
include_signature(encoder_mode) == encoder_mode # "Signing"

\* emit_message_parts
emit_message_parts(header, queries, answers, authorities, additionals, edns, signature, encoder_mode, encoder_max_size) ==
    LET q == emit_all(queries, encoder_max_size)
        answer_count == emit_all(answers, q.room)
        authority_count == emit_all(authorities, answer_count.room)
        ad == emit_all(additionals, authority_count.room)
        \* the OPT record, with the high bits of the header's response code
        opt == RecordFromEdns([edns[1] EXCEPT
                                  !.rcode_high = rcode_high(header.response_code)])
        ed == IF edns # None THEN emit_all(<<opt>>, ad.room) ELSE emit_none(ad.room)
        sg == IF include_signature(encoder_mode) /\ signature # Unsigned
              THEN emit_all(<<signature.rec>>, ed.room)
              ELSE emit_none(ed.room)
        additional_count ==
            <<count_was_truncated(ad)[1] + count_was_truncated(ed)[1]
                 + count_was_truncated(sg)[1],
              count_was_truncated(ad)[2] \/ count_was_truncated(ed)[2]
                 \/ count_was_truncated(sg)[2]>>
        counts == [query_count |-> q.count,
                   answer_count |-> count_was_truncated(answer_count)[1],
                   authority_count |-> count_was_truncated(authority_count)[1],
                   additional_count |-> additional_count[1]]
        was_truncated == \/ header.truncated
                         \/ count_was_truncated(answer_count)[2]
                         \/ count_was_truncated(authority_count)[2]
                         \/ additional_count[2]
        final_header == update_header_counts(header, was_truncated, counts)
    IN IF q.truncated THEN EmitErr      \* queries.emit(encoder)? returns the error
       ELSE [tag |-> "Wire",
             header |-> WireHeader(final_header),
             queries |-> q.written,
             records |-> answer_count.written \o authority_count.written
                           \o ad.written \o ed.written \o sg.written,
             final_header |-> final_header]

Message_emit_without_edns(m, encoder_mode, encoder_max_size) ==
    emit_message_parts(m.header, m.queries, m.answers, m.authorities,
                       m.additionals, None, m.signature,
                       encoder_mode, encoder_max_size)

\* Message::emit
Message_emit(m, encoder_mode, encoder_max_size) ==
    emit_message_parts(m.header, m.queries, m.answers, m.authorities,
                       m.additionals, m.edns, m.signature,
                       encoder_mode, encoder_max_size)


-----------------------------------------------------------------------------
(* One run of the codec: a message is received, decoded, and the decoded   *)
(* message is emitted again.                                               *)

Query(t) == [rtype |-> "QUERY", query_type |-> t]

\* every sequence over S of length at most n
BoundedSeq(S, n) == UNION {[1..k -> S] : k \in 0..n}

\* the messages received: the header counts split the records into the
\* sections; one count too many makes the decoder run out of input
Wires ==
    { [tag |-> "Wire",
       header |-> [query_count |-> Len(qs), answer_count |-> a,
                   authority_count |-> n, additional_count |-> d,
                   truncated |-> FALSE, response_code |-> 0],
       queries |-> qs,
       records |-> body] :
         qs \in {<<>>, <<Query("A")>>},
         body \in BoundedSeq(WireRecords, MaxRecs),
         a \in 0..MaxRecs, n \in 0..1, d \in 0..(MaxRecs + 1) }

InitMsg ==
    /\ LookupIdle
    /\ H3Idle
    /\ chain = <<>> /\ qname = "" /\ pc = "idle" /\ idx = 0
    /\ lookup_result = Skip /\ producer_index = 0 /\ signer = None
    /\ calls = <<>> /\ responses = <<>>
    /\ RRsetIdle
    /\ dnssec \in BOOLEAN
    /\ wire \in {w \in Wires :
                   LET total == w.header.answer_count + w.header.authority_count
                                  + w.header.additional_count
                   IN total \in {Len(w.records), Len(w.records) + 1}}
    /\ message = [tag |-> "None"]
    /\ mode = "Normal"
    /\ max_size = 0
    /\ encoded = [tag |-> "None"]
    /\ reread = [tag |-> "None"]
    /\ mpc = "received"

\* Message::from_vec
Read ==
    /\ mpc = "received"
    /\ message' = Message_read(wire, dnssec)
    /\ mpc' = "decoded"
    /\ UNCHANGED <<dnssec, wire, mode, max_size, encoded, reread, cvars, rvars, ovars, hvars>>

\* the maximum sizes of the encoders: too small for some records, or large
\* enough for every message
EncoderSizes == 0..(MaxRecs + 3) \cup {4 * MaxRecs + 4}

\* Message::emit with an encoder of some mode and maximum size
Emit ==
    /\ mpc \in {"decoded", "built"}
    /\ message.tag = "Message"
    /\ \E m \in {"Normal", "Signing"}, sz \in EncoderSizes :
        /\ mode' = m
        /\ max_size' = sz
        /\ encoded' = Message_emit(message, m, sz)
    /\ mpc' = "emitted"
    /\ UNCHANGED <<dnssec, wire, message, reread, cvars, rvars, ovars, hvars>>

NextMsg == Read \/ Emit

SpecMsg == InitMsg /\ [][NextMsg]_vars

-----------------------------------------------------------------------------
(* Properties of the codec.                                                *)

SignatureTypes == {"SIG", "TSIG"}

\* the records of the received message that its header counts place in the
\* additional section
WireAdditionals(w) ==
    LET first == w.header.answer_count + w.header.authority_count + 1
        last == first + w.header.additional_count - 1
    IN SubSeq(w.records, first, IF last > Len(w.records) THEN Len(w.records) ELSE last)

\* some record of the additional section comes after a SIG or TSIG record
RecordFollowsSignature(w) ==
    \E i \in DOMAIN WireAdditionals(w) :
        /\ WireAdditionals(w)[i].rtype \in SignatureTypes
        /\ i < Len(WireAdditionals(w))

\* the positions of the SIG and TSIG records among records
SignaturePositions(records) ==
    {i \in DOMAIN records : records[i].rtype \in SignatureTypes}

Decoded == mpc \in {"decoded", "emitted"}

Emitted == mpc = "emitted" /\ encoded.tag = "Wire"

\* the additional section is rejected when a record follows a signature record
RejectsRecordAfterSignature ==
    (Decoded /\ RecordFollowsSignature(wire)) => message = DecodeErr

\* outside Signing mode a signature record is the last record written, and
\* the signature of the message is written whenever nothing is truncated
SignatureEmittedLast ==
    (Emitted /\ mode # "Signing") =>
        /\ \A i \in SignaturePositions(encoded.records) : i = Len(encoded.records)
        /\ (message.signature # Unsigned /\ ~encoded.final_header.truncated) =>
              /\ encoded.records # <<>>
              /\ encoded.records[Len(encoded.records)] = message.signature.rec

\* C9 as stated: in the additional section any record that follows a TSIG or
\* SIG(0) record makes decoding fail, and outside Signing mode the signature
\* record is the final record of every emitted message that carries one.
C9_TerminalSignature_AnyBuild ==
    RejectsRecordAfterSignature /\ SignatureEmittedLast

\* C9, in a build with the __dnssec feature: in the additional section any
\* record that follows a TSIG or SIG(0) record makes decoding fail, and
\* outside Signing mode the signature record is written after the additional
\* records and the OPT record, as the final record of the emitted message.
C9_TerminalSignature ==
    dnssec => (RejectsRecordAfterSignature /\ SignatureEmittedLast)

\* a TSIG or SIG(0) record first in an otherwise well-formed additional
\* section, with a record behind it, was refused
C9_Witness ==
    /\ dnssec /\ mpc = "decoded"
    /\ wire.header.answer_count = 0 /\ wire.header.authority_count = 0
    /\ wire.header.additional_count = Len(wire.records)
    /\ Len(wire.records) = 2
    /\ wire.records[1].rtype = "TSIG" /\ wire.records[2].rtype = "A"
    /\ message = DecodeErr

\* a signed message with an additional record and an OPT record was emitted
\* whole: the signature record is behind both
C9_EmitWitness ==
    /\ dnssec /\ Emitted /\ mode = "Normal"
    /\ Len(encoded.records) = 3
    /\ encoded.records[1].rtype = "A"
    /\ encoded.records[2].rtype = "OPT"
    /\ encoded.records[3] = message.signature.rec
    /\ message.signature.tag = "Tsig"
    /\ encoded.final_header.additional_count = 3

\* a decoded message has one signature, of one of the three kinds, and it
\* holds the record of its kind
OneSignature ==
    (Decoded /\ message.tag = "Message") =>
        /\ message.signature.tag \in {"Unsigned", "Sig0", "Tsig"}
        /\ message.signature.tag = "Sig0" => message.signature.rec.rtype = "SIG"
        /\ message.signature.tag = "Tsig" => message.signature.rec.rtype = "TSIG"
        /\ message.signature = Unsigned
              \/ SignaturePositions(message.additionals) = {}

\* an additional section with two signature records is rejected
RejectsTwoSignatures ==
    (Decoded /\ Cardinality(SignaturePositions(WireAdditionals(wire))) >= 2)
        => message = DecodeErr

\* C10 as stated: a decoded message carries exactly one of Unsigned, Sig0 or
\* Tsig, and an additional section with a SIG(0) and a TSIG record, two TSIG
\* records or two SIG(0) records, in any order, fails to decode.
C10_SignatureExclusivity_AnyBuild ==
    OneSignature /\ RejectsTwoSignatures

\* C10, in a build with the __dnssec feature: a decoded message carries
\* exactly one of Unsigned, Sig0 or Tsig (in every build), and an additional
\* section with a SIG(0) and a TSIG record, two TSIG records or two SIG(0)
\* records, in any order, fails to decode (with the feature).
C10_SignatureExclusivity ==
    OneSignature /\ (dnssec => RejectsTwoSignatures)

\* a SIG(0) record and a TSIG record closing a well-formed additional
\* section were refused
C10_Witness ==
    /\ dnssec /\ mpc = "decoded"
    /\ wire.header.answer_count = 0 /\ wire.header.authority_count = 0
    /\ wire.header.additional_count = Len(wire.records)
    /\ Len(wire.records) = 3
    /\ wire.records[1].rtype = "A"
    /\ {wire.records[2].rtype, wire.records[3].rtype} = SignatureTypes
    /\ message = DecodeErr

-----------------------------------------------------------------------------
(* Placement of the pseudo-records and order of the records.               *)

PseudoTypes == {"OPT", "SIG", "TSIG"}

Min(a, b) == IF a < b THEN a ELSE b

\* the records of the received message that its header counts place in the
\* answer section and in the authority section
WireAnswers(w) == SubSeq(w.records, 1, Min(w.header.answer_count, Len(w.records)))

WireAuthorities(w) ==
    SubSeq(w.records, w.header.answer_count + 1,
           Min(w.header.answer_count + w.header.authority_count, Len(w.records)))

HasPseudo(records) == \E i \in DOMAIN records : records[i].rtype \in PseudoTypes

\* C11: decoding fails whenever an OPT, TSIG or SIG record stands anywhere in
\* the answer or authority section; the other records of those sections are
\* returned unchanged and in order, and reading such a section yields
\* edns = None and signature = Unsigned.
C11_PseudoRecordPlacement ==
    Decoded =>
        /\ (HasPseudo(WireAnswers(wire)) \/ HasPseudo(WireAuthorities(wire)))
              => message = DecodeErr
        /\ message.tag = "Message" =>
              /\ message.answers = WireAnswers(wire)
              /\ message.authorities = WireAuthorities(wire)
              /\ LET an == read_records(wire.records, wire.header.answer_count,
                                        FALSE, dnssec)
                     ns == read_records(an.rest, wire.header.authority_count,
                                        FALSE, dnssec)
                 IN /\ an.edns = None /\ an.sig = Unsigned
                    /\ ns.edns = None /\ ns.sig = Unsigned

\* a TSIG record behind an ordinary record of the answer section was refused
C11_Witness ==
    /\ mpc = "decoded"
    /\ wire.header.answer_count = 2 /\ wire.header.authority_count = 0
    /\ wire.header.additional_count = 0
    /\ Len(wire.records) = 2
    /\ wire.records[1].rtype = "A" /\ wire.records[2].rtype = "TSIG"
    /\ message = DecodeErr

\* ordinary records of the answer and authority sections were returned
C11_AcceptWitness ==
    /\ mpc = "decoded" /\ message.tag = "Message"
    /\ Len(message.answers) = 2 /\ Len(message.authorities) = 1
    /\ message.answers[1] # message.answers[2]

OptPositions(records) == {i \in DOMAIN records : records[i].rtype = "OPT"}

\* C12: an additional section with more than one OPT record fails to decode,
\* whatever lies between or behind them; on success the OPT record is taken
\* out of the records returned and is the edns of the message, which is Some
\* exactly when one OPT record was present.
C12_UniqueOpt ==
    Decoded =>
        /\ Cardinality(OptPositions(WireAdditionals(wire))) > 1
              => message = DecodeErr
        /\ message.tag = "Message" =>
              /\ OptPositions(message.additionals) = {}
              /\ message.edns # None
                    <=> Cardinality(OptPositions(WireAdditionals(wire))) = 1
              /\ \A i \in OptPositions(WireAdditionals(wire)) :
                    message.edns = Some(EdnsFromRecord(WireAdditionals(wire)[i]))

\* two OPT records with an ordinary record between them were refused
C12_Witness ==
    /\ mpc = "decoded"
    /\ wire.header.answer_count = 0 /\ wire.header.authority_count = 0
    /\ wire.header.additional_count = 3
    /\ Len(wire.records) = 3
    /\ wire.records[1].rtype = "OPT" /\ wire.records[2].rtype = "A"
    /\ wire.records[3].rtype = "OPT"
    /\ message = DecodeErr

\* the single OPT record of an additional section became the edns
C12_EdnsWitness ==
    /\ mpc = "decoded" /\ message.tag = "Message"
    /\ message.edns = Some(EdnsFromRecord(Rec("OPT", 1)))
    /\ Len(message.additionals) = 2

\* the sections of the emitted message, as its final header counts them
EncodedAnswers == SubSeq(encoded.records, 1, encoded.final_header.answer_count)

EncodedAuthorities ==
    SubSeq(encoded.records, encoded.final_header.answer_count + 1,
           encoded.final_header.answer_count + encoded.final_header.authority_count)

EncodedAdditionals ==
    SubSeq(encoded.records,
           encoded.final_header.answer_count + encoded.final_header.authority_count + 1,
           Len(encoded.records))

IsPrefix(p, q) == Len(p) <= Len(q) /\ p = SubSeq(q, 1, Len(p))

\* the records that read_records keeps in the additional records
IsOrdinary(record) ==
    /\ record.rtype # "OPT"
    /\ ~(dnssec /\ record.rtype \in SignatureTypes)

\* the OPT and signature records behind the additional records, in this order
Trailers(records) ==
    SelectSeq(records, LAMBDA r : r.rtype = "OPT")
        \o SelectSeq(records, LAMBDA r : dnssec /\ r.rtype \in SignatureTypes)

\* C18 as stated: encoding a decoded message writes the records of the
\* answer, authority and additional sections in the order in which they were
\* read from the wire (what does not fit, or is left out for signing, is
\* missing at the end).
C18_OrderAsOnWire ==
    Emitted =>
        /\ IsPrefix(EncodedAnswers, WireAnswers(wire))
        /\ IsPrefix(EncodedAuthorities, WireAuthorities(wire))
        /\ IsPrefix(EncodedAdditionals, WireAdditionals(wire))

\* C18, amended: the records of the answer and authority sections and the
\* ordinary records of the additional section are written in the order in
\* which they were read from the wire; the OPT record and then the signature
\* record are written behind the other additional records, wherever the OPT
\* record stood on the wire.
C18_OrderPreserved ==
    Emitted =>
        /\ IsPrefix(EncodedAnswers, WireAnswers(wire))
        /\ IsPrefix(EncodedAuthorities, WireAuthorities(wire))
        /\ \E k \in 0..Len(EncodedAdditionals) :
              /\ IsPrefix(SubSeq(EncodedAdditionals, 1, k),
                          SelectSeq(WireAdditionals(wire), IsOrdinary))
              /\ IsPrefix(SubSeq(EncodedAdditionals, k + 1, Len(EncodedAdditionals)),
                          Trailers(WireAdditionals(wire)))
        /\ (mode = "Normal" /\ ~encoded.final_header.truncated) =>
              /\ EncodedAnswers = WireAnswers(wire)
              /\ EncodedAuthorities = WireAuthorities(wire)
              /\ EncodedAdditionals =
                    SelectSeq(WireAdditionals(wire), IsOrdinary)
                       \o Trailers(WireAdditionals(wire))

\* two different answers and two different additional records were read and
\* written whole, in their order
C18_Witness ==
    /\ Emitted /\ mode = "Normal" /\ ~encoded.final_header.truncated
    /\ Len(wire.records) = 3
    /\ wire.header.answer_count = 2 /\ wire.header.additional_count = 1
    /\ wire.records[1] = Rec("A", 2) /\ wire.records[2] = Rec("A", 1)
    /\ encoded.records = wire.records

\* an OPT record read before an ordinary additional record is written
\* behind it
C18_OptMovedWitness ==
    /\ Emitted /\ mode = "Normal" /\ ~encoded.final_header.truncated
    /\ wire.header.additional_count = 2 /\ Len(wire.records) = 2
    /\ wire.records[1].rtype = "OPT" /\ wire.records[2].rtype = "A"
    /\ encoded.records = <<wire.records[2], wire.records[1]>>

-----------------------------------------------------------------------------
(* One run of the codec from the other side: a message is built by the     *)
(* caller, emitted, and the emitted message is decoded.                    *)

\* the header counts of a message built: brought up to date with
\* Message::update_counts, or set by the caller with set_*_count as in
\* test_header_counts_correction_after_emit_read
PresetCounts(preset, queries, answers, authorities, additionals) ==
    IF preset = "update_counts"
    THEN [query_count |-> Len(queries), answer_count |-> Len(answers),
          authority_count |-> Len(authorities),
          additional_count |-> Len(additionals)]
    ELSE [query_count |-> 1, answer_count |-> 5, authority_count |-> 5,
          additional_count |-> 0]

\* the response codes set: NoError, NXDomain, and an extended code (high bits
\* 1, low bits 3)
ResponseCodes == {0, 3, 16 + 3}

\* the signatures a message can be given
Signatures(has_dnssec) ==
    IF has_dnssec THEN {Unsigned, Sig0(Rec("SIG", 0)), Tsig(Rec("TSIG", 0))}
    ELSE {Unsigned}

\* a message built with Message::new, set_*, add_query, add_answer,
\* add_authority, add_additional, set_edns and set_signature
BuiltMessage(preset, tc, rc, queries, answers, authorities, additionals, ed, sg) ==
    LET c == PresetCounts(preset, queries, answers, authorities, additionals) IN
    [tag |-> "Message",
     header |-> [query_count |-> c.query_count, answer_count |-> c.answer_count,
                 authority_count |-> c.authority_count,
                 additional_count |-> c.additional_count,
                 truncated |-> tc, response_code |-> rc],
     queries |-> queries, answers |-> answers, authorities |-> authorities,
     additionals |-> additionals, signature |-> sg, edns |-> ed]

InitBuilt ==
    /\ LookupIdle
    /\ H3Idle
    /\ chain = <<>> /\ qname = "" /\ pc = "idle" /\ idx = 0
    /\ lookup_result = Skip /\ producer_index = 0 /\ signer = None
    /\ calls = <<>> /\ responses = <<>>
    /\ RRsetIdle
    /\ dnssec \in BOOLEAN
    /\ wire = [tag |-> "None"]
    /\ \E preset \in {"update_counts", "set_count"}, tc \in BOOLEAN,
          rc \in ResponseCodes,
          queries \in {<<>>, <<Query("A")>>},
          answers \in BoundedSeq({Rec("A", 1), Rec("A", 2)}, MaxRecs - 1),
          authorities \in BoundedSeq({Rec("NS", 1)}, 1),
          additionals \in BoundedSeq({Rec("A", 1), Rec("A", 2)}, 1),
          ed \in {None, Some([rcode_high |-> 0]), Some([rcode_high |-> 1])},
          sg \in Signatures(dnssec) :
            message = BuiltMessage(preset, tc, rc, queries, answers, authorities,
                                   additionals, ed, sg)
    /\ mode = "Normal"
    /\ max_size = 0
    /\ encoded = [tag |-> "None"]
    /\ reread = [tag |-> "None"]
    /\ mpc = "built"

\* Message::from_vec on the bytes written by Message::to_vec
ReadBack ==
    /\ mpc = "emitted"
    /\ encoded.tag = "Wire"
    /\ reread' = Message_read(encoded, dnssec)
    /\ mpc' = "reread"
    /\ UNCHANGED <<dnssec, wire, message, mode, max_size, encoded, cvars, rvars, ovars, hvars>>

NextBuilt == Emit \/ ReadBack

SpecBuilt == InitBuilt /\ [][NextBuilt]_vars

-----------------------------------------------------------------------------
(* Properties of the emitted message.                                      *)

\* the encoder had room for every part of the message
Roomy == max_size = 4 * MaxRecs + 4

\* the OPT record and the signature record that emit writes for message
\* outside Signing mode
MessageTrailers(m, encoder_mode) ==
    (IF m.edns # None
     THEN <<RecordFromEdns([rcode_high |-> rcode_high(m.header.response_code)])>>
     ELSE <<>>)
    \o (IF encoder_mode # "Signing" /\ m.signature # Unsigned
        THEN <<m.signature.rec>> ELSE <<>>)

\* C13: the header written by encode counts, for each section, the entries
\* actually emitted, whatever counts the caller had set; a message declaring
\* 1 query, 5 answers, 5 authorities and holding 0 queries, 1 answer,
\* 1 authority and 1 additional decodes after encode with counts 0, 1, 1, 1.
C13_HeaderCounts ==
    /\ Emitted =>
         /\ encoded.header.query_count = Len(encoded.queries)
         /\ IsPrefix(encoded.queries, message.queries)
         /\ encoded.header.answer_count + encoded.header.authority_count
               + encoded.header.additional_count = Len(encoded.records)
         /\ encoded.header.answer_count = encoded.final_header.answer_count
         /\ encoded.header.authority_count = encoded.final_header.authority_count
         /\ IsPrefix(EncodedAnswers, message.answers)
         /\ IsPrefix(EncodedAuthorities, message.authorities)
         /\ \E k \in 0..Len(EncodedAdditionals) :
               /\ IsPrefix(SubSeq(EncodedAdditionals, 1, k), message.additionals)
               /\ IsPrefix(SubSeq(EncodedAdditionals, k + 1, Len(EncodedAdditionals)),
                           MessageTrailers(message, mode))
         /\ Roomy =>
               /\ encoded.header.query_count = Len(message.queries)
               /\ encoded.header.answer_count = Len(message.answers)
               /\ encoded.header.authority_count = Len(message.authorities)
               /\ encoded.header.additional_count =
                     Len(message.additionals) + Len(MessageTrailers(message, mode))
    /\ (mpc = "reread" /\ reread.tag = "Message") =>
         /\ reread.header.query_count = Len(reread.queries)
         /\ reread.header.answer_count = Len(reread.answers)
         /\ reread.header.authority_count = Len(reread.authorities)
         /\ reread.header.additional_count =
               Len(reread.additionals) + (IF reread.edns # None THEN 1 ELSE 0)
                  + (IF reread.signature # Unsigned THEN 1 ELSE 0)

\* the message of test_header_counts_correction_after_emit_read, emitted and
\* read
C13_Witness ==
    /\ mpc = "reread" /\ reread.tag = "Message"
    /\ message.header.query_count = 1 /\ message.header.answer_count = 5
    /\ message.header.authority_count = 5
    /\ Len(message.queries) = 0 /\ Len(message.answers) = 1
    /\ Len(message.authorities) = 1 /\ Len(message.additionals) = 1
    /\ message.edns = None /\ message.signature = Unsigned
    /\ reread.header.query_count = 0 /\ reread.header.answer_count = 1
    /\ reread.header.authority_count = 1 /\ reread.header.additional_count = 1

\* message with (a) the header counts brought to the sizes of its sections,
\* the OPT and signature records counted with the additional records, and
\* (b) the high bits of the response code merged: held by the Edns when there
\* is one, and not carried when there is none
Canonical(m) ==
    [m EXCEPT
       !.header = [@ EXCEPT
                     !.query_count = Len(m.queries),
                     !.answer_count = Len(m.answers),
                     !.authority_count = Len(m.authorities),
                     !.additional_count =
                         Len(m.additionals) + (IF m.edns # None THEN 1 ELSE 0)
                            + (IF m.signature # Unsigned THEN 1 ELSE 0),
                     !.response_code = IF m.edns # None THEN @ ELSE @ % 16],
       !.edns = IF m.edns # None
                THEN Some([m.edns[1] EXCEPT
                             !.rcode_high = rcode_high(m.header.response_code)])
                ELSE None]

RECURSIVE TotalSize(_)
TotalSize(items) ==
    IF items = <<>> THEN 0 ELSE RecordSize(Head(items)) + TotalSize(Tail(items))

EmitDone == mpc \in {"emitted", "reread"}

\* what encode does when a section of records is written in part: the final
\* header has TC = 1 and the count of the section is the number written; a
\* TC bit set in the header of the message stays set
TruncationInHeader ==
    Emitted =>
        /\ Len(EncodedAnswers) < Len(message.answers)
              => encoded.final_header.truncated
        /\ Len(EncodedAuthorities) < Len(message.authorities)
              => encoded.final_header.truncated
        /\ Len(EncodedAdditionals)
              < Len(message.additionals) + Len(MessageTrailers(message, mode))
              => encoded.final_header.truncated
        /\ encoded.final_header.answer_count = Len(EncodedAnswers)
        /\ encoded.final_header.authority_count = Len(EncodedAuthorities)
        /\ encoded.final_header.additional_count = Len(EncodedAdditionals)
        /\ encoded.final_header.query_count = Len(encoded.queries)
        /\ IsPrefix(EncodedAnswers, message.answers)
        /\ IsPrefix(EncodedAuthorities, message.authorities)
        /\ message.header.truncated => encoded.final_header.truncated
        /\ encoded.header.truncated = encoded.final_header.truncated

\* C15 as stated: when any section, the question section included, is
\* written in part, encoding completes and the final header has TC = 1 and
\* the count of what fit; a TC bit already set is never cleared.
C15_TruncationAnySection ==
    /\ EmitDone => encoded.tag = "Wire"
    /\ TruncationInHeader
    /\ (Emitted /\ Len(encoded.queries) < Len(message.queries))
          => encoded.final_header.truncated

\* C15, amended: when the answer, authority or additional section (the OPT
\* and signature records included) is written in part, encoding completes
\* and the final header has TC = 1 and the count of what fit; a TC bit
\* already set is never cleared; when a question does not fit, encoding
\* fails.
C15_TruncationPropagation ==
    /\ EmitDone =>
          (encoded.tag = "Wire" <=> TotalSize(message.queries) <= max_size)
    /\ Emitted => encoded.queries = message.queries
    /\ TruncationInHeader

\* the second of two answers did not fit: TC is set, one answer is counted
C15_Witness ==
    /\ Emitted
    /\ ~message.header.truncated
    /\ Len(message.answers) = 2
    /\ encoded.final_header.answer_count = 1
    /\ encoded.final_header.truncated
    /\ encoded.header.truncated

\* the question did not fit: encoding failed
C15_QuestionWitness ==
    /\ mpc = "emitted" /\ encoded = EmitErr
    /\ Len(message.queries) = 1 /\ max_size = 0

EncodedOpts == SelectSeq(encoded.records, LAMBDA r : r.rtype = "OPT")

\* C17: encode writes the high bits of the header response code into the
\* rcode-high field of the OPT record, whatever the Edns held, and the low
\* four bits into the header; decode merges the high bits of the OPT record
\* into the header response code: with EDNS every response code survives
\* encode then decode, without EDNS only the low four bits are carried.
C17_ExtendedRcode ==
    /\ Emitted =>
          /\ encoded.header.response_code = message.header.response_code % 16
          /\ \A i \in DOMAIN EncodedOpts :
                EncodedOpts[i].rd = message.header.response_code \div 16
          /\ Len(EncodedOpts) = 1 <=> (message.edns # None /\ Len(EncodedOpts) # 0)
          /\ (Roomy /\ message.edns # None) => Len(EncodedOpts) = 1
          /\ message.edns = None => Len(EncodedOpts) = 0
    /\ (mpc = "reread" /\ reread.tag = "Message") =>
          /\ Len(EncodedOpts) = 1 =>
                /\ reread.header.response_code = message.header.response_code
                /\ reread.edns =
                      Some([rcode_high |-> message.header.response_code \div 16])
          /\ Len(EncodedOpts) = 0 =>
                /\ reread.header.response_code = message.header.response_code % 16
                /\ reread.edns = None

\* an extended response code of a message whose Edns held other high bits
\* came back whole
C17_Witness ==
    /\ mpc = "reread" /\ reread.tag = "Message"
    /\ message.header.response_code = 16 + 3
    /\ message.edns = Some([rcode_high |-> 0])
    /\ encoded.header.response_code = 3
    /\ EncodedOpts = <<Rec("OPT", 1)>>
    /\ reread.header.response_code = 16 + 3

\* without EDNS the extended response code came back with its low bits
C17_NoEdnsWitness ==
    /\ mpc = "reread" /\ reread.tag = "Message"
    /\ message.header.response_code = 16 + 3
    /\ message.edns = None
    /\ reread.header.response_code = 3

-----------------------------------------------------------------------------
(* Signing of a message before it is sent.                                 *)

OpCodes == {"Query", "Status", "Notify", "Update"}

QueryTypes == {"A", "AXFR", "IXFR"}

\* Message::set_op_code
set_op_code(m, op_code) ==
    [m EXCEPT !.header = [f \in DOMAIN m.header \cup {"op_code"} |->
                            IF f = "op_code" THEN op_code ELSE m.header[f]]]

should_sign_message_transfers_only(m) ==
    \E i \in DOMAIN m.queries : m.queries[i].query_type \in {"AXFR", "IXFR"}

\* MessageSigner::should_sign_message, the default of the trait
should_sign_message(m) ==
    \/ m.header.op_code \in {"Update", "Notify"}
    \/ \E i \in DOMAIN m.queries : m.queries[i].query_type \in {"AXFR", "IXFR"}

InitSigner ==
    /\ LookupIdle
    /\ H3Idle
    /\ chain = <<>> /\ qname = "" /\ pc = "idle" /\ idx = 0
    /\ lookup_result = Skip /\ producer_index = 0 /\ signer = None
    /\ calls = <<>> /\ responses = <<>>
    /\ RRsetIdle
    /\ dnssec \in BOOLEAN
    /\ wire = [tag |-> "None"]
    /\ \E op_code \in OpCodes,
          queries \in BoundedSeq({Query(t) : t \in QueryTypes}, MaxQueries) :
            message = set_op_code(BuiltMessage("update_counts", FALSE, 0, queries,
                                               <<>>, <<>>, <<>>, None, Unsigned),
                                  op_code)
    /\ mode = "Normal"
    /\ max_size = 0
    /\ encoded = [tag |-> "None"]
    /\ reread = [tag |-> "None"]
    /\ mpc = "built"

\* Message::finalize, for a message that is to be signed
Finalize ==
    /\ mpc = "built"
    /\ should_sign_message(message)
    /\ \E signature \in Signatures(dnssec) :
          message' = IF dnssec THEN [message EXCEPT !.signature = signature]
                     ELSE message
    /\ mpc' = "finalized"
    /\ UNCHANGED <<dnssec, wire, mode, max_size, encoded, reread, cvars, rvars, ovars, hvars>>

\* a message that is not to be signed is sent as it is
SendUnsigned ==
    /\ mpc = "built"
    /\ ~should_sign_message(message)
    /\ mpc' = "sent"
    /\ UNCHANGED <<dnssec, wire, message, mode, max_size, encoded, reread, cvars, rvars, ovars, hvars>>

NextSigner == Finalize \/ SendUnsigned

SpecSigner == InitSigner /\ [][NextSigner]_vars

\* C19: should_sign_message is true exactly when the op code of the message
\* is Update or Notify or one of its queries has query type AXFR or IXFR,
\* and false for every other message, such as a Query for A or a message
\* without queries.
C19_ShouldSign ==
    LET Transfer == {i \in 1..Len(message.queries) :
                       message.queries[i] \in {Query("AXFR"), Query("IXFR")}}
    IN /\ mpc = "finalized" =>
             (message.header.op_code = "Update" \/ message.header.op_code = "Notify"
                \/ Transfer # {})
       /\ mpc = "sent" =>
             (message.header.op_code \in {"Query", "Status"} /\ Transfer = {})

\* a Query for A and then IXFR was signed
C19_Witness ==
    /\ mpc = "finalized"
    /\ message.header.op_code = "Query"
    /\ message.queries = <<Query("A"), Query("IXFR")>>

\* a Notify without queries was signed; a Query for A was not
C19_NotifyWitness ==
    /\ mpc = "finalized"
    /\ message.header.op_code = "Notify" /\ message.queries = <<>>

C19_PlainWitness ==
    /\ mpc = "sent"
    /\ message.header.op_code = "Query" /\ message.queries = <<Query("A")>>

-----------------------------------------------------------------------------
(* RecordSet: the records of one name and type.                            *)

RecordTypes == {"A", "NS", "SOA", "CNAME", "ANAME"}

\* RData: the data of a record of a type (for SOA with its serial), or
\* RData::Update0(record_type), the empty data of a dynamic update
RDataOf(record_type, v, soa_serial) ==
    [rtype |-> record_type, update0 |-> FALSE, v |-> v, serial |-> soa_serial]

Update0(record_type) ==
    [rtype |-> record_type, update0 |-> TRUE, v |-> 0, serial |-> 0]

\* u32::MAX at the width of the model
SerialMax == 2 ^ SerialBits - 1

\* the serials of the SOA records given: two neighbours and the largest
SoaSerials == {1, 2, SerialMax}

RDatas(record_type) ==
    IF record_type = "SOA"
    THEN {RDataOf("SOA", v, n) : v \in 1..MaxRdata, n \in SoaSerials}
            \cup {Update0("SOA")}
    ELSE {RDataOf(record_type, v, 0) : v \in 1..MaxRdata}

\* Record::from_rdata(name, ttl, rdata), of class IN
from_rdata(ttl, rdata) == [rd |-> rdata, ttl |-> ttl, dns_class |-> "IN"]

\* Record::record_type
record_type(record) == record.rd.rtype

Ttls == {1, 2}

Serials == {1, 2}

\* RecordSet::new
RecordSet_new(rtype, serial) ==
    [tag |-> "RecordSet", record_type |-> rtype, dns_class |-> "IN", ttl |-> 0,
     records |-> <<>>, rrsigs |-> <<>>, serial |-> serial]

\* RecordSet::with_ttl
RecordSet_with_ttl(rtype, ttl) ==
    [tag |-> "RecordSet", record_type |-> rtype, dns_class |-> "IN", ttl |-> ttl,
     records |-> <<>>, rrsigs |-> <<>>, serial |-> 0]

\* RecordSet::from(record)
RecordSet_from(record) ==
    [tag |-> "RecordSet", record_type |-> record_type(record),
     dns_class |-> record.dns_class, ttl |-> record.ttl,
     records |-> <<record>>, rrsigs |-> <<>>, serial |-> 0]

updated_keeps_rrsigs(rs, serial) == [rs EXCEPT !.serial = serial]

\* RecordSet::updated
updated(rs, serial) == [rs EXCEPT !.serial = serial, !.rrsigs = <<>>]

\* Vec::swap_remove: the element at i is replaced by the last one
swap_remove(v, i) ==
    IF i = Len(v) THEN SubSeq(v, 1, Len(v) - 1)
    ELSE [k \in 1..(Len(v) - 1) |-> IF k = i THEN v[Len(v)] ELSE v[k]]

\* the result of a call: the set after it, the value returned, and whether
\* an assertion failed
CallResult(rs, ret, panic) == [rs |-> rs, ret |-> ret, panic |-> panic]

insert_restrict_soa_only(rs, record) ==
    IF record_type(record) = "SOA"
    THEN IF Len(rs.records) > 1 THEN [kind |-> "panic", rs |-> rs]
         ELSE IF rs.records # <<>>
                 /\ (rs.records[1].rd.update0 \/ record.rd.update0
                       \/ record.rd.serial <= rs.records[1].rd.serial)
         THEN [kind |-> "return", rs |-> rs]
         ELSE [kind |-> "go", rs |-> [rs EXCEPT !.records = <<>>]]
    ELSE [kind |-> "go", rs |-> rs]

insert_restrict_same_serial(rs, record) ==
    IF record_type(record) = "SOA"
    THEN IF Len(rs.records) > 1 THEN [kind |-> "panic", rs |-> rs]
         ELSE IF rs.records # <<>>
                 /\ (rs.records[1].rd.update0 \/ record.rd.update0
                       \/ record.rd.serial < rs.records[1].rd.serial)
         THEN [kind |-> "return", rs |-> rs]
         ELSE [kind |-> "go", rs |-> [rs EXCEPT !.records = <<>>]]
    ELSE IF record_type(record) \in {"CNAME", "ANAME"}
    THEN IF Len(rs.records) > 1 THEN [kind |-> "panic", rs |-> rs]
         ELSE [kind |-> "go", rs |-> [rs EXCEPT !.records = <<>>]]
    ELSE [kind |-> "go", rs |-> rs]

insert_restrict_cname_only(rs, record) ==
    IF record_type(record) = "SOA"
    THEN IF Len(rs.records) > 1 THEN [kind |-> "panic", rs |-> rs]
         ELSE IF rs.records # <<>>
                 /\ (rs.records[1].rd.update0 \/ record.rd.update0
                       \/ record.rd.serial <= rs.records[1].rd.serial)
         THEN [kind |-> "return", rs |-> rs]
         ELSE [kind |-> "go", rs |-> [rs EXCEPT !.records = <<>>]]
    ELSE IF record_type(record) = "CNAME"
    THEN IF Len(rs.records) > 1 THEN [kind |-> "panic", rs |-> rs]
         ELSE [kind |-> "go", rs |-> [rs EXCEPT !.records = <<>>]]
    ELSE [kind |-> "go", rs |-> rs]

\* RecordSet::insert, the match on the record type: the types that cannot
\* be appended to
insert_restrict(rs, record) ==
    IF record_type(record) = "SOA"
    THEN IF Len(rs.records) > 1 THEN [kind |-> "panic", rs |-> rs]
         ELSE IF rs.records # <<>>
                 /\ (rs.records[1].rd.update0 \/ record.rd.update0
                       \/ record.rd.serial <= rs.records[1].rd.serial)
         THEN [kind |-> "return", rs |-> rs]
         ELSE [kind |-> "go", rs |-> [rs EXCEPT !.records = <<>>]]
    ELSE IF record_type(record) \in {"CNAME", "ANAME"}
    THEN IF Len(rs.records) > 1 THEN [kind |-> "panic", rs |-> rs]
         ELSE [kind |-> "go", rs |-> [rs EXCEPT !.records = <<>>]]
    ELSE [kind |-> "go", rs |-> rs]

to_replace_identical_only(rs, record) ==
    SelectSeq([i \in 1..Len(rs.records) |-> i],
              LAMBDA i : rs.records[i] = record)

\* the indices of the records with the data of record
to_replace(rs, record) ==
    SelectSeq([i \in 1..Len(rs.records) |-> i],
              LAMBDA i : rs.records[i].rd = record.rd)

replace_loop_push_only(rs, record, serial, indices, replaced) ==
    IF indices = <<>> THEN [rs |-> rs, replaced |-> replaced, returned |-> FALSE]
    ELSE IF rs.records[Head(indices)] = record
    THEN [rs |-> rs, replaced |-> replaced, returned |-> TRUE]
    ELSE [rs |-> updated([rs EXCEPT !.records = Append(rs.records, record),
                                    !.ttl = record.ttl],
                         serial),
          replaced |-> TRUE, returned |-> FALSE]

\* RecordSet::insert, the loop over to_replace: an identical record ends the
\* call with false, any other is replaced by record
RECURSIVE replace_loop(_, _, _, _, _)
replace_loop(rs, record, serial, indices, replaced) ==
    IF indices = <<>> THEN [rs |-> rs, replaced |-> replaced, returned |-> FALSE]
    ELSE LET i == Head(indices) IN
         IF rs.records[i] = record
         THEN [rs |-> rs, replaced |-> replaced, returned |-> TRUE]
         ELSE replace_loop(
                  updated([rs EXCEPT
                             !.records = swap_remove(Append(rs.records, record), i),
                             !.ttl = record.ttl],
                          serial),
                  record, serial, Tail(indices), TRUE)

RecordSet_insert_keeps_ttl(rs, record, serial) ==
    LET m == insert_restrict(rs, record) IN
    IF m.kind = "panic" THEN CallResult(rs, FALSE, TRUE)
    ELSE IF m.kind = "return" THEN CallResult(rs, FALSE, FALSE)
    ELSE LET l == replace_loop(m.rs, record, serial, to_replace(m.rs, record), FALSE) IN
         IF l.returned THEN CallResult(l.rs, FALSE, FALSE)
         ELSE IF ~l.replaced
         THEN CallResult(
                  [updated(l.rs, serial) EXCEPT !.records = Append(@, record)],
                  TRUE, FALSE)
         ELSE CallResult(l.rs, l.replaced, FALSE)

\* RecordSet::insert
RecordSet_insert(rs, record, serial) ==
    LET m == insert_restrict(rs, record) IN
    IF m.kind = "panic" THEN CallResult(rs, FALSE, TRUE)
    ELSE IF m.kind = "return" THEN CallResult(rs, FALSE, FALSE)
    ELSE LET l == replace_loop(m.rs, record, serial, to_replace(m.rs, record), FALSE) IN
         IF l.returned THEN CallResult(l.rs, FALSE, FALSE)
         ELSE IF ~l.replaced
         THEN CallResult(
                  [updated([l.rs EXCEPT !.ttl = record.ttl], serial)
                      EXCEPT !.records = Append(@, record)],
                  TRUE, FALSE)
         ELSE CallResult(l.rs, l.replaced, FALSE)

\* RecordSet::add_rdata
RecordSet_add_rdata(rs, rdata) == RecordSet_insert(rs, from_rdata(rs.ttl, rdata), 0)

RecordSet_remove_last_ns(rs, record, serial) ==
    IF record_type(record) = "NS" /\ Len(rs.records) < 1
    THEN CallResult(rs, FALSE, FALSE)
    ELSE IF record_type(record) = "SOA" THEN CallResult(rs, FALSE, FALSE)
    ELSE LET kept == SelectSeq(rs.records, LAMBDA rr : rr.rd # record.rd)
             removed == Len(kept) < Len(rs.records)
         IN CallResult(IF removed THEN updated([rs EXCEPT !.records = kept], serial)
                       ELSE [rs EXCEPT !.records = kept],
                       removed, FALSE)

RecordSet_remove_soa(rs, record, serial) ==
    IF record_type(record) = "NS" /\ Len(rs.records) <= 1
    THEN CallResult(rs, FALSE, FALSE)
    ELSE LET kept == SelectSeq(rs.records, LAMBDA rr : rr.rd # record.rd)
             removed == Len(kept) < Len(rs.records)
         IN CallResult(IF removed THEN updated([rs EXCEPT !.records = kept], serial)
                       ELSE [rs EXCEPT !.records = kept],
                       removed, FALSE)

RecordSet_remove_always_updated(rs, record, serial) ==
    IF record_type(record) = "NS" /\ Len(rs.records) <= 1
    THEN CallResult(rs, FALSE, FALSE)
    ELSE IF record_type(record) = "SOA" THEN CallResult(rs, FALSE, FALSE)
    ELSE LET kept == SelectSeq(rs.records, LAMBDA rr : rr.rd # record.rd)
             removed == Len(kept) < Len(rs.records)
         IN CallResult(updated([rs EXCEPT !.records = kept], serial), removed, FALSE)

\* RecordSet::remove
RecordSet_remove(rs, record, serial) ==
    IF record_type(record) = "NS" /\ Len(rs.records) <= 1
    THEN CallResult(rs, FALSE, FALSE)
    ELSE IF record_type(record) = "SOA" THEN CallResult(rs, FALSE, FALSE)
    ELSE LET kept == SelectSeq(rs.records, LAMBDA rr : rr.rd # record.rd)
             removed == Len(kept) < Len(rs.records)
         IN CallResult(IF removed THEN updated([rs EXCEPT !.records = kept], serial)
                       ELSE [rs EXCEPT !.records = kept],
                       removed, FALSE)

\* RecordSet::insert_rrsig
RecordSet_insert_rrsig(rs, rrsig) == [rs EXCEPT !.rrsigs = Append(@, rrsig)]

DNSClasses == {"IN", "CH"}

\* RecordSet::set_dns_class
RecordSet_set_dns_class(rs, dns_class) ==
    [rs EXCEPT !.dns_class = dns_class,
               !.records = [i \in DOMAIN @ |-> [@[i] EXCEPT !.dns_class = dns_class]]]

\* RecordSet::set_ttl
RecordSet_set_ttl(rs, ttl) ==
    [rs EXCEPT !.ttl = ttl,
               !.records = [i \in DOMAIN @ |-> [@[i] EXCEPT !.ttl = ttl]]]

\* the records given to insert and remove: of the name and type of the set
\* (insert and remove assert it), remove also takes a record of type ANY
RecordsOf(rtype) == {[rd |-> d, ttl |-> t, dns_class |-> "IN"] :
                        d \in RDatas(rtype), t \in Ttls}

InitRRset ==
    /\ LookupIdle
    /\ H3Idle
    /\ chain = <<>> /\ qname = "" /\ pc = "idle" /\ idx = 0
    /\ lookup_result = Skip /\ producer_index = 0 /\ signer = None
    /\ calls = <<>> /\ responses = <<>>
    /\ CodecIdle
    /\ \/ \E rtype \in RecordTypes, serial \in {0} \cup Serials :
             rrset = RecordSet_new(rtype, serial)
       \/ \E rtype \in RecordTypes, ttl \in Ttls :
             rrset = RecordSet_with_ttl(rtype, ttl)
       \/ \E rtype \in RecordTypes : \E record \in RecordsOf(rtype) :
             rrset = RecordSet_from(record)
    /\ last_call = [op |-> "none"]
    /\ rpc = "live"
    /\ newest = [tag |-> "None"]

\* one call on the set, with what it returned and the set before it
Called(op, record, serial, r) ==
    /\ rrset' = r.rs
    /\ rpc' = IF r.panic THEN "panicked" ELSE "live"
    /\ last_call' = [op |-> op, record |-> record,
                     serial |-> serial, ret |-> r.ret, before |-> rrset]
    /\ UNCHANGED <<cvars, mvars, newest, ovars, hvars>>

CanCall == rpc = "live"

Insert ==
    /\ CanCall
    /\ \E record \in RecordsOf(rrset.record_type), serial \in Serials :
          Called("insert", record, serial, RecordSet_insert(rrset, record, serial))

AddRdata ==
    /\ CanCall
    /\ \E rdata \in RDatas(rrset.record_type) :
          Called("add_rdata", from_rdata(rrset.ttl, rdata), 0,
                 RecordSet_add_rdata(rrset, rdata))

Remove ==
    /\ CanCall
    /\ \E record \in RecordsOf(rrset.record_type)
                       \cup {from_rdata(0, Update0("ANY"))},
          serial \in Serials :
          Called("remove", record, serial, RecordSet_remove(rrset, record, serial))

InsertRrsig ==
    /\ CanCall
    /\ Len(rrset.rrsigs) < MaxRrsigs
    /\ LET rrsig == from_rdata(rrset.ttl, RDataOf("RRSIG", 1, 0)) IN
          Called("insert_rrsig", rrsig, rrset.serial,
                 CallResult(RecordSet_insert_rrsig(rrset, rrsig), TRUE, FALSE))

NextRRset == Insert \/ AddRdata \/ Remove \/ InsertRrsig

SpecRRset == InitRRset /\ [][NextRRset]_vars

-----------------------------------------------------------------------------
(* RecordSet: the calls that change the set, setters included, with the    *)
(* history of its TTL.                                                      *)

\* the serial of the zone at the calls
ZoneSerial == 1

\* the set holds the record inserted last
HoldsNewest(rs) ==
    /\ newest.tag = "Some"
    /\ \E i \in DOMAIN rs.records : rs.records[i].rd = newest.rd

\* one call on the set: whether it changed the records. newest follows the
\* record that insert took last: its data, its TTL (the TTL set_ttl gives it
\* while the set holds it) and the TTL of a set_ttl call made after the insert
Changed(op, rd, ttl, r) ==
    /\ rrset' = r.rs
    /\ rpc' = IF r.panic THEN "panicked" ELSE "live"
    /\ last_call' = [op |-> op, ret |-> r.ret,
                     changed |-> r.rs.records # rrset.records]
    /\ newest' = IF op \in {"insert", "add_rdata"} /\ r.ret
                 THEN [tag |-> "Some", rd |-> rd, ttl |-> ttl, set_ttl |-> <<>>]
                 ELSE IF op = "set_ttl" /\ newest.tag = "Some"
                 THEN [newest EXCEPT !.set_ttl = <<ttl>>,
                                     !.ttl = IF HoldsNewest(rrset) THEN ttl ELSE @]
                 ELSE newest
    /\ UNCHANGED <<cvars, mvars, ovars, hvars>>

InsertRecord ==
    /\ CanCall
    /\ \E record \in RecordsOf(rrset.record_type) :
          Changed("insert", record.rd, record.ttl,
                  RecordSet_insert(rrset, record, ZoneSerial))

AddRecord ==
    /\ CanCall
    /\ \E rdata \in RDatas(rrset.record_type) :
          Changed("add_rdata", rdata, rrset.ttl, RecordSet_add_rdata(rrset, rdata))

RemoveRecord ==
    /\ CanCall
    /\ \E record \in RecordsOf(rrset.record_type) :
          Changed("remove", record.rd, record.ttl,
                  RecordSet_remove(rrset, record, ZoneSerial))

SignRecords ==
    /\ CanCall
    /\ Len(rrset.rrsigs) < MaxRrsigs
    /\ LET rrsig == from_rdata(0, RDataOf("RRSIG", 1, 0)) IN
          Changed("insert_rrsig", rrsig.rd, 0,
                  CallResult(RecordSet_insert_rrsig(rrset, rrsig), TRUE, FALSE))

SetTtl ==
    /\ CanCall
    /\ \E ttl \in Ttls :
          Changed("set_ttl", Update0("ANY"), ttl,
                  CallResult(RecordSet_set_ttl(rrset, ttl), TRUE, FALSE))

SetDnsClass ==
    /\ CanCall
    /\ \E dns_class \in DNSClasses :
          Changed("set_dns_class", Update0("ANY"), 0,
                  CallResult(RecordSet_set_dns_class(rrset, dns_class), TRUE, FALSE))

NextSetters ==
    \/ InsertRecord \/ AddRecord \/ RemoveRecord \/ SignRecords
    \/ SetTtl \/ SetDnsClass

SpecSetters == InitRRset /\ [][NextSetters]_vars

-----------------------------------------------------------------------------
(* DNS over HTTP/3: H3ClientStream::inner_send from the headers of the     *)
(* response on.  A body is the sizes of its data frames; what the bytes    *)
(* received decode to is given with the response.                          *)

MIME_APPLICATION_DNS == "application/dns-message"

\* StatusCode of the response
Statuses == {200, 204, 301, 404}

\* StatusCode::is_success: 2xx
is_success(status) == status >= 200 /\ status < 300

\* the Content-Length header: absent, not a number, or a length
NoLength == [present |-> FALSE, valid |-> FALSE, n |-> 0]

BadLength == [present |-> TRUE, valid |-> FALSE, n |-> 0]

Length(n) == [present |-> TRUE, valid |-> TRUE, n |-> n]

ContentLengths == {NoLength, BadLength} \cup {Length(n) : n \in 0..MaxBody}

\* the Content-Type header: absent, not a string, or a media type
ContentTypes == {"absent", "not a string", MIME_APPLICATION_DNS, "text/plain"}

RECURSIVE BodyLen(_)
BodyLen(frames) == IF frames = <<>> THEN 0 ELSE Head(frames) + BodyLen(Tail(frames))

\* the bodies a server sends: data frames of one byte or more
Bodies ==
    {b \in UNION {[1..k -> 1..MaxBody] : k \in 0..MaxBody} : BodyLen(b) <= MaxBody}

\* what the bytes received are: a DNS message with its response code, or not
\* a DNS message
Payloads == {[valid |-> FALSE, rcode |-> "NoError"]}
              \cup {[valid |-> TRUE, rcode |-> r] : r \in {"NoError", "NXDomain", "ServFail"}}

\* Result<DnsResponse, ProtoError> of inner_send; parsed tells whether the
\* body was given to DnsResponse::from_buffer
SendErr(kind, parsed) == [tag |-> "Err", kind |-> kind, rcode |-> "", parsed |-> parsed]

SendOk(rcode) == [tag |-> "Ok", kind |-> "", rcode |-> rcode, parsed |-> TRUE]

\* DnsResponse::from_buffer: the message decoded, whatever its response code
DnsResponse_from_buffer(payload) ==
    IF payload.valid THEN SendOk(payload.rcode) ELSE SendErr("decode", TRUE)

LengthOk_at_least(content_length, n) ==
    ~content_length.present \/ n >= content_length.n

\* inner_send, the length assertion after the body was read
LengthOk(content_length, n) ==
    ~content_length.present \/ n = content_length.n

content_type_required(header) == header

\* inner_send: a response without Content-Type is taken to be a DNS message
content_type(header) ==
    IF header = "absent" THEN MIME_APPLICATION_DNS ELSE header

\* inner_send from the length assertion to the end
CheckedResponse(resp, n) ==
    IF ~LengthOk(resp.content_length, n) THEN SendErr("length", FALSE)
    ELSE IF ~is_success(resp.status) THEN SendErr("http", FALSE)
    ELSE IF resp.content_type = "not a string" THEN SendErr("content type", FALSE)
    ELSE IF content_type(resp.content_type) # MIME_APPLICATION_DNS
    THEN SendErr("content type", FALSE)
    ELSE DnsResponse_from_buffer(resp.payload)

\* no handle is in use
StreamIdle ==
    /\ handles = <<>>
    /\ tx_closed = FALSE
    /\ shut_called = {}
    /\ h_call = [op |-> "none"]
    /\ transmitted = 0
    /\ spc = "idle"

InitH3Send ==
    /\ chain = <<>> /\ qname = "" /\ pc = "idle" /\ idx = 0
    /\ lookup_result = Skip /\ producer_index = 0 /\ signer = None
    /\ calls = <<>> /\ responses = <<>>
    /\ CodecIdle
    /\ RRsetIdle
    /\ LookupIdle
    /\ StreamIdle
    /\ \E status \in Statuses, cl \in ContentLengths, ct \in ContentTypes,
          body \in Bodies, payload \in Payloads :
          http_response = [tag |-> "Response", status |-> status,
                           content_length |-> cl, content_type |-> ct,
                           body |-> body, payload |-> payload]
    /\ response_bytes = 0
    /\ body_pos = 0
    /\ send_result = [tag |-> "None"]
    /\ hpc = "headers"

SendFrame == <<cvars, mvars, rvars, ovars,
               handles, tx_closed, shut_called, h_call, transmitted, spc>>

\* the Content-Length header is read
ReadHeaders ==
    /\ hpc = "headers"
    /\ IF http_response.content_length = BadLength
       THEN /\ send_result' = SendErr("bad headers", FALSE)
            /\ hpc' = "done"
       ELSE /\ send_result' = send_result
            /\ hpc' = "recv"
    /\ UNCHANGED <<http_response, response_bytes, body_pos>>
    /\ UNCHANGED SendFrame

\* one recv_data of the loop: an error of the stream, the next data frame,
\* or the end of the stream
RecvData ==
    /\ hpc = "recv"
    /\ \/ /\ send_result' = SendErr("recv_data", FALSE)
          /\ hpc' = "done"
          /\ UNCHANGED <<response_bytes, body_pos>>
       \/ /\ body_pos < Len(http_response.body)
          /\ response_bytes' = response_bytes + http_response.body[body_pos + 1]
          /\ body_pos' = body_pos + 1
          /\ hpc' = IF http_response.content_length.present
                       /\ response_bytes' >= http_response.content_length.n
                    THEN "check" ELSE "recv"
          /\ send_result' = send_result
       \/ /\ body_pos = Len(http_response.body)
          /\ hpc' = "check"
          /\ UNCHANGED <<response_bytes, body_pos, send_result>>
    /\ UNCHANGED http_response
    /\ UNCHANGED SendFrame

\* the length, the status and the Content-Type are checked, the body decoded
CheckResponse ==
    /\ hpc = "check"
    /\ send_result' = CheckedResponse(http_response, response_bytes)
    /\ hpc' = "done"
    /\ UNCHANGED <<http_response, response_bytes, body_pos>>
    /\ UNCHANGED SendFrame

NextH3Send == ReadHeaders \/ RecvData \/ CheckResponse

SpecH3Send == InitH3Send /\ [][NextH3Send]_vars

-----------------------------------------------------------------------------
(* DNS over HTTP/3: the handles of one connection.                         *)

\* H3ClientStream as connect_inner builds it
H3ClientStream_new == [is_shutdown |-> FALSE]

\* H3ClientStream::shutdown
H3ClientStream_shutdown(handle) == [handle EXCEPT !.is_shutdown = TRUE]

\* H3ClientStream::is_shutdown
H3ClientStream_is_shutdown(handle) == handle.is_shutdown

H3ClientStream_poll_next_closed_first(handle, closed) ==
    IF closed THEN "Err"
    ELSE IF handle.is_shutdown THEN "None"
    ELSE "Ok"

\* Stream::poll_next of H3ClientStream: None, Some(Err) or Some(Ok(()))
H3ClientStream_poll_next(handle, closed) ==
    IF handle.is_shutdown THEN "None"
    ELSE IF closed THEN "Err"
    ELSE "Ok"

\* H3ClientStream::send_message: a panic, the error of request.to_vec(), or
\* the response stream of the request handed to the connection
H3ClientStream_send_message(handle, to_vec_ok) ==
    IF handle.is_shutdown THEN "panic"
    ELSE IF ~to_vec_ok THEN "err"
    ELSE "sent"

InitH3Stream ==
    /\ chain = <<>> /\ qname = "" /\ pc = "idle" /\ idx = 0
    /\ lookup_result = Skip /\ producer_index = 0 /\ signer = None
    /\ calls = <<>> /\ responses = <<>>
    /\ CodecIdle
    /\ RRsetIdle
    /\ LookupIdle
    /\ http_response = [tag |-> "None"]
    /\ response_bytes = 0
    /\ body_pos = 0
    /\ send_result = [tag |-> "None"]
    /\ hpc = "idle"
    /\ handles = <<H3ClientStream_new>>
    /\ tx_closed = FALSE
    /\ shut_called = {}
    /\ h_call = [op |-> "none"]
    /\ transmitted = 0
    /\ spc = "live"

StreamFrame == <<cvars, mvars, rvars, ovars,
                 http_response, response_bytes, body_pos, send_result, hpc>>

\* one call on handle h, what it returned, and the state it was made in
HCalled(op, h, ret) ==
    h_call' = [op |-> op, h |-> h, ret |-> ret,
               was_shutdown |-> handles[h].is_shutdown,
               was_closed |-> tx_closed,
               had_transmitted |-> transmitted]

\* Clone of a handle
CloneHandle ==
    /\ spc = "live"
    /\ Len(handles) < MaxHandles
    /\ \E h \in DOMAIN handles :
          /\ handles' = Append(handles, handles[h])
          /\ HCalled("clone", h, "cloned")
    /\ UNCHANGED <<tx_closed, shut_called, transmitted, spc>>
    /\ UNCHANGED StreamFrame

Shutdown ==
    /\ spc = "live"
    /\ \E h \in DOMAIN handles :
          /\ handles' = [handles EXCEPT ![h] = H3ClientStream_shutdown(@)]
          /\ shut_called' = shut_called \cup {h}
          /\ HCalled("shutdown", h, "done")
    /\ UNCHANGED <<tx_closed, transmitted, spc>>
    /\ UNCHANGED StreamFrame

IsShutdown ==
    /\ spc = "live"
    /\ \E h \in DOMAIN handles :
          HCalled("is_shutdown", h, H3ClientStream_is_shutdown(handles[h]))
    /\ UNCHANGED <<handles, tx_closed, shut_called, transmitted, spc>>
    /\ UNCHANGED StreamFrame

PollNext ==
    /\ spc = "live"
    /\ \E h \in DOMAIN handles :
          HCalled("poll_next", h, H3ClientStream_poll_next(handles[h], tx_closed))
    /\ UNCHANGED <<handles, tx_closed, shut_called, transmitted, spc>>
    /\ UNCHANGED StreamFrame

SendMessage ==
    /\ spc = "live"
    /\ transmitted < MaxSends
    /\ \E h \in DOMAIN handles, to_vec_ok \in BOOLEAN :
          LET ret == H3ClientStream_send_message(handles[h], to_vec_ok) IN
          /\ HCalled("send_message", h, ret)
          /\ spc' = IF ret = "panic" THEN "panicked" ELSE "live"
          /\ transmitted' = IF ret = "sent" THEN transmitted + 1 ELSE transmitted
    /\ UNCHANGED <<handles, tx_closed, shut_called>>
    /\ UNCHANGED StreamFrame

\* the task that drives the connection ends: the receiving end of the
\* shutdown channel is dropped
DriverEnds ==
    /\ spc = "live"
    /\ ~tx_closed
    /\ tx_closed' = TRUE
    /\ UNCHANGED <<handles, shut_called, h_call, transmitted, spc>>
    /\ UNCHANGED StreamFrame

NextH3Stream ==
    CloneHandle \/ Shutdown \/ IsShutdown \/ PollNext \/ SendMessage \/ DriverEnds

SpecH3Stream == InitH3Stream /\ [][NextH3Stream]_vars

-----------------------------------------------------------------------------
(* LookupOptions: the records of a set as a lookup hands them out.         *)

\* Edns, of which the lookup reads the DO flag
EdnsWith(dnssec_ok) == [dnssec_ok |-> dnssec_ok]

\* LookupOptions::default
LookupOptions_default == [dnssec_ok |-> FALSE]

\* LookupOptions::from_edns; the DO flag is read in a build with the
\* __dnssec feature only
LookupOptions_from_edns(build_dnssec, e) ==
    IF build_dnssec /\ e # None
    THEN [LookupOptions_default EXCEPT !.dnssec_ok = e[1].dnssec_ok]
    ELSE LookupOptions_default

\* RrsetRecords: Empty, RecordsOnly or RecordsAndRrsigs, with the records
\* the iterator has not yet yielded
RrsetRecords(tag, rest) == [tag |-> tag, rest |-> rest]

\* RecordSet::records_with_rrsigs
RecordSet_records_with_rrsigs(rs) ==
    IF rs.records = <<>> THEN RrsetRecords("Empty", <<>>)
    ELSE RrsetRecords("RecordsAndRrsigs", rs.records \o rs.rrsigs)

\* RecordSet::records_without_rrsigs
RecordSet_records_without_rrsigs(rs) ==
    IF rs.records = <<>> THEN RrsetRecords("Empty", <<>>)
    ELSE RrsetRecords("RecordsOnly", rs.records)

\* RecordSet::records
RecordSet_records(rs, and_rrsigs) ==
    IF and_rrsigs THEN RecordSet_records_with_rrsigs(rs)
    ELSE RecordSet_records_without_rrsigs(rs)

LookupOptions_rrset_with_rrigs_always(build_dnssec, options, rs) ==
    IF build_dnssec THEN RecordSet_records(rs, TRUE)
    ELSE RecordSet_records_without_rrsigs(rs)

\* LookupOptions::rrset_with_rrigs
LookupOptions_rrset_with_rrigs(build_dnssec, options, rs) ==
    IF build_dnssec THEN RecordSet_records(rs, options.dnssec_ok)
    ELSE RecordSet_records_without_rrsigs(rs)

\* RrsetRecords::next: the item yielded (None at the end) and the iterator
\* after it
RrsetRecords_next(it) ==
    IF it.tag = "Empty" \/ it.rest = <<>> THEN [item |-> None, it |-> it]
    ELSE [item |-> Some(Head(it.rest)), it |-> [it EXCEPT !.rest = Tail(@)]]

\* the RRSIG record of a signed set
TheRrsig == from_rdata(1, RDataOf("RRSIG", 1, 0))

\* the sets looked up: up to MaxRdata records of type A with different data,
\* in either order, with up to MaxRrsigs signatures; insert_rrsig on a new
\* set gives the one with signatures and no record
LookupSets ==
    {[RecordSet_new("A", 0) EXCEPT !.records = recs, !.rrsigs = [i \in 1..n |-> TheRrsig]] :
        recs \in {r \in UNION {[1..k -> RecordsOf("A")] : k \in 0..MaxRdata} :
                    \A i, j \in DOMAIN r :
                        /\ r[i].ttl = 1
                        /\ r[i].rd = r[j].rd => i = j},
        n \in 0..MaxRrsigs}

InitLookup ==
    /\ chain = <<>> /\ qname = "" /\ pc = "idle" /\ idx = 0
    /\ lookup_result = Skip /\ producer_index = 0 /\ signer = None
    /\ calls = <<>> /\ responses = <<>>
    /\ H3Idle
    /\ dnssec \in BOOLEAN
    /\ wire = [tag |-> "None"]
    /\ message = [tag |-> "None"]
    /\ mode = "Normal"
    /\ max_size = 0
    /\ encoded = [tag |-> "None"]
    /\ reread = [tag |-> "None"]
    /\ mpc = "idle"
    /\ rrset \in LookupSets
    /\ last_call = [op |-> "none"]
    /\ rpc = "live"
    /\ newest = [tag |-> "None"]
    /\ request_edns \in {None, Some(EdnsWith(FALSE)), Some(EdnsWith(TRUE))}
    /\ lookup_options = LookupOptions_default
    /\ records_iter = RrsetRecords("Empty", <<>>)
    /\ yielded = <<>>
    /\ opc = "options"

\* the options of the lookup are made from the EDNS of the request
FromEdns ==
    /\ opc = "options"
    /\ lookup_options' = LookupOptions_from_edns(dnssec, request_edns)
    /\ opc' = "records"
    /\ UNCHANGED <<request_edns, records_iter, yielded, cvars, mvars, rvars, hvars>>

\* the records of the set are asked for
RrsetWithRrsigs ==
    /\ opc = "records"
    /\ records_iter' = LookupOptions_rrset_with_rrigs(dnssec, lookup_options, rrset)
    /\ opc' = "iter"
    /\ UNCHANGED <<request_edns, lookup_options, yielded, cvars, mvars, rvars, hvars>>

\* one call of next on the iterator; None ends the iteration
IterNext ==
    /\ opc = "iter"
    /\ LET n == RrsetRecords_next(records_iter) IN
          /\ records_iter' = n.it
          /\ IF n.item = None
             THEN opc' = "done" /\ yielded' = yielded
             ELSE opc' = "iter" /\ yielded' = Append(yielded, n.item[1])
    /\ UNCHANGED <<request_edns, lookup_options, cvars, mvars, rvars, hvars>>

NextLookup == FromEdns \/ RrsetWithRrsigs \/ IterNext

SpecLookup == InitLookup /\ [][NextLookup]_vars

-----------------------------------------------------------------------------
(* Properties of the RecordSet.                                            *)

SingletonTypes == {"SOA", "CNAME", "ANAME"}

\* C20: after any sequence of insert, add_rdata and remove calls a set of
\* type SOA, CNAME or ANAME holds at most one record, so the assertions
\* records.len() <= 1 of insert never fail.
C20_Singleton ==
    rpc # "idle" =>
        /\ rpc # "panicked"
        /\ rrset.record_type \in SingletonTypes => Len(rrset.records) <= 1

\* a CNAME record was inserted into a set that held another: the set holds
\* the one record
C20_Witness ==
    /\ rpc = "live"
    /\ rrset.record_type = "CNAME"
    /\ last_call.op = "insert" /\ last_call.ret
    /\ Len(last_call.before.records) = 1
    /\ last_call.before.records[1].rd # last_call.record.rd
    /\ rrset.records = <<last_call.record>>

\* an SOA record with a later serial was inserted over another
C20_SoaWitness ==
    /\ rpc = "live"
    /\ rrset.record_type = "SOA"
    /\ last_call.op = "insert" /\ last_call.ret
    /\ Len(last_call.before.records) = 1
    /\ rrset.records = <<last_call.record>>
    /\ last_call.record.rd.serial > last_call.before.records[1].rd.serial

\* an insert of an SOA record into a set that holds an SOA record
SoaInsert ==
    /\ rpc = "live"
    /\ last_call.op = "insert"
    /\ rrset.record_type = "SOA"
    /\ last_call.before.records # <<>>
    /\ ~last_call.before.records[1].rd.update0
    /\ ~last_call.record.rd.update0

\* C21: an SOA record whose serial is less than or equal to the serial of the
\* SOA record held is not inserted: insert returns false and the set is left
\* as it was (records, ttl, serial, rrsigs), whatever its other fields; one
\* with a greater serial is inserted, insert returns true and the set holds
\* the new record in place of the old.
C21_SoaStaleInsert ==
    SoaInsert =>
        IF last_call.record.rd.serial <= last_call.before.records[1].rd.serial
        THEN ~last_call.ret /\ rrset = last_call.before
        ELSE last_call.ret /\ rrset.records = <<last_call.record>>

\* an SOA record of the serial of the one held and other data was refused by
\* a set that has a signature
C21_Witness ==
    /\ SoaInsert
    /\ last_call.record.rd.serial = last_call.before.records[1].rd.serial
    /\ last_call.record.rd.v # last_call.before.records[1].rd.v
    /\ last_call.before.rrsigs # <<>>
    /\ ~last_call.ret

\* an SOA record of a greater serial replaced the one held
C21_ReplaceWitness ==
    /\ SoaInsert
    /\ last_call.record.rd.serial > last_call.before.records[1].rd.serial
    /\ last_call.ret /\ rrset.records = <<last_call.record>>

\* RFC 1982 serial number arithmetic at the width SerialBits: i1 < i2
SerialLess(i1, i2) ==
    \/ i1 < i2 /\ i2 - i1 < 2 ^ (SerialBits - 1)
    \/ i1 > i2 /\ i1 - i2 > 2 ^ (SerialBits - 1)

\* C22: the insert of an SOA record is ignored (returns false) exactly when
\* the serial held is greater than or equal to the new serial in the sense of
\* RFC 1982, and otherwise the set is cleared and holds the new record, also
\* across the wrap-around (held: the largest serial, new: 1).
C22_SerialArithmetic ==
    SoaInsert =>
        LET existing == last_call.before.records[1].rd.serial
            new == last_call.record.rd.serial
        IN IF existing = new \/ SerialLess(new, existing)
           THEN ~last_call.ret /\ rrset = last_call.before
           ELSE last_call.ret /\ rrset.records = <<last_call.record>>

\* C23: inserting into a CNAME or ANAME set a record whose data differs from
\* that of the record held returns true, and the set then holds exactly the
\* new record and not the old one.
C23_CnameReplacement ==
    /\ last_call.op = "insert"
    /\ rrset.record_type \in {"CNAME", "ANAME"}
    /\ last_call.before.records # <<>>
    /\ last_call.before.records[1].rd # last_call.record.rd
    => /\ rpc = "live"
       /\ last_call.ret
       /\ rrset.records = <<last_call.record>>
       /\ \A i \in DOMAIN rrset.records : rrset.records[i] # last_call.before.records[1]

\* an ANAME record replaced another in a set that had a signature
C23_Witness ==
    /\ rpc = "live" /\ last_call.op = "insert"
    /\ rrset.record_type = "ANAME"
    /\ Len(last_call.before.records) = 1
    /\ last_call.before.records[1].rd # last_call.record.rd
    /\ last_call.before.rrsigs # <<>>
    /\ rrset.records = <<last_call.record>>

\* C24: right after an insert or a remove that returned true the set has no
\* rrsigs and its serial is the serial given to that call, whatever rrsigs
\* insert_rrsig had added before.
C24_SignatureInvalidation ==
    /\ last_call.op \in {"insert", "remove"}
    /\ last_call.ret
    => /\ rrset.rrsigs = <<>>
       /\ rrset.serial = last_call.serial

\* a remove took a record from a set that had a signature and another serial
C24_Witness ==
    /\ rpc = "live" /\ last_call.op = "remove" /\ last_call.ret
    /\ last_call.before.rrsigs # <<>>
    /\ last_call.before.serial # last_call.serial
    /\ rrset.rrsigs = <<>>

\* an insert replaced a record of the same data in a set that had a signature
C24_InsertWitness ==
    /\ rpc = "live" /\ last_call.op = "insert" /\ last_call.ret
    /\ last_call.before.rrsigs # <<>>
    /\ last_call.before.serial # last_call.serial
    /\ Len(rrset.records) = Len(last_call.before.records)
    /\ rrset.record_type = "A"
    /\ rrset.rrsigs = <<>>

\* a call of insert, add_rdata or remove was made
Mutated == last_call.op \in {"insert", "add_rdata", "remove"}

\* the set held a record with the data of the record given to the last call
HeldData ==
    \E i \in DOMAIN last_call.before.records :
        last_call.before.records[i].rd = last_call.record.rd

\* C25: remove on an NS set that holds exactly one record returns false and
\* leaves the set unchanged, so an NS set that holds a record is never empty
\* after insert, add_rdata or remove; removing one of two or more NS records
\* returns true and takes that one record away.
C25_NsFloor ==
    Mutated /\ rrset.record_type = "NS" =>
        /\ rpc = "live"
        /\ last_call.op = "remove" /\ Len(last_call.before.records) = 1
           => ~last_call.ret /\ rrset = last_call.before
        /\ last_call.before.records # <<>> => rrset.records # <<>>
        /\ last_call.op = "remove" /\ Len(last_call.before.records) >= 2 /\ HeldData
           => /\ last_call.ret
              /\ Len(rrset.records) = Len(last_call.before.records) - 1
              /\ \A i \in DOMAIN rrset.records :
                    rrset.records[i].rd # last_call.record.rd

\* the only NS record of a set that has a signature was not removed
C25_Witness ==
    /\ rpc = "live" /\ last_call.op = "remove"
    /\ rrset.record_type = "NS"
    /\ Len(last_call.before.records) = 1 /\ HeldData
    /\ last_call.before.rrsigs # <<>>
    /\ ~last_call.ret /\ rrset = last_call.before

\* one of two NS records was removed
C25_RemoveWitness ==
    /\ rpc = "live" /\ last_call.op = "remove"
    /\ rrset.record_type = "NS"
    /\ Len(last_call.before.records) = 2 /\ HeldData
    /\ last_call.ret /\ Len(rrset.records) = 1

\* C26: remove with an SOA record returns false and leaves the set unchanged,
\* so an SOA set that holds a record holds exactly one record after any
\* insert, add_rdata or remove.
C26_SoaNeverRemoved ==
    Mutated =>
        /\ last_call.op = "remove" /\ record_type(last_call.record) = "SOA"
           => ~last_call.ret /\ rrset = last_call.before
        /\ rrset.record_type = "SOA" /\ last_call.before.records # <<>>
           => /\ Len(rrset.records) = 1
              /\ record_type(rrset.records[1]) = "SOA"

\* the SOA record held was given to remove and is still held
C26_Witness ==
    /\ rpc = "live" /\ last_call.op = "remove"
    /\ rrset.record_type = "SOA"
    /\ last_call.before.records = <<last_call.record>>
    /\ ~last_call.record.rd.update0
    /\ ~last_call.ret /\ rrset.records = <<last_call.record>>

\* an insert into a set of a type that can hold several records
PlainInsert ==
    /\ rpc = "live"
    /\ last_call.op = "insert"
    /\ rrset.record_type \notin SingletonTypes

\* C27: on a set of a type other than SOA, CNAME and ANAME, inserting a
\* record identical to one held (data, TTL, class) returns false and changes
\* nothing; inserting a record with the data of one held and another TTL
\* returns true, puts the new record in the place of the old and leaves the
\* number of records unchanged; inserting a record with new data returns
\* true and the set grows by that record.
C27_DuplicateInsert ==
    PlainInsert =>
        LET old == last_call.before.records
            record == last_call.record
        IN /\ (\E i \in DOMAIN old : old[i] = record)
              => ~last_call.ret /\ rrset = last_call.before
           /\ \A i \in DOMAIN old :
                 old[i].rd = record.rd /\ old[i].ttl # record.ttl
                 => /\ last_call.ret
                    /\ rrset.records = [old EXCEPT ![i] = record]
           /\ ~HeldData
              => last_call.ret /\ rrset.records = Append(old, record)

\* of two records held, the first was replaced by one with its data and
\* another TTL
C27_Witness ==
    /\ PlainInsert
    /\ Len(last_call.before.records) = 2
    /\ last_call.before.records[1].rd = last_call.record.rd
    /\ last_call.before.records[1].ttl # last_call.record.ttl
    /\ last_call.ret
    /\ Len(rrset.records) = 2 /\ rrset.records[1] = last_call.record

\* a record identical to one held was not inserted
C27_IdenticalWitness ==
    /\ PlainInsert
    /\ \E i \in DOMAIN last_call.before.records :
          last_call.before.records[i] = last_call.record
    /\ last_call.before.rrsigs # <<>>
    /\ ~last_call.ret /\ rrset = last_call.before

\* a record with new data was appended to a set that held one
C27_AppendWitness ==
    /\ PlainInsert
    /\ Len(last_call.before.records) = 1 /\ ~HeldData
    /\ last_call.ret /\ Len(rrset.records) = 2

\* C28: insert returns true if and only if the set changed: for a set of any
\* type, CNAME, ANAME and SOA included, and any record, the value returned is
\* true exactly when the records after the call differ from the records
\* before it.
C28_TrueIffChanged ==
    rpc = "live" /\ last_call.op = "insert" =>
        (last_call.ret <=> rrset.records # last_call.before.records)

-----------------------------------------------------------------------------
(* Properties of the RecordSet with its setters.                           *)

\* C29 as stated: in every state of a set that has taken a record by insert,
\* ttl() is the TTL of the record inserted last.
C29_TtlOfNewest ==
    rpc = "live" /\ newest.tag = "Some" => rrset.ttl = newest.ttl

\* C29: in every state of a set that has taken a record by insert, ttl() is
\* the TTL given to the last set_ttl call made after that insert and, when
\* there was none, the TTL of the record inserted last.
C29_TtlTracking ==
    rpc = "live" /\ newest.tag = "Some" =>
        rrset.ttl = IF newest.set_ttl # <<>> THEN newest.set_ttl[1] ELSE newest.ttl

\* a record with another TTL was inserted beside one held: the set has the
\* TTL of the new record
C29_Witness ==
    /\ rpc = "live" /\ last_call.op = "insert" /\ last_call.ret
    /\ newest.tag = "Some" /\ newest.set_ttl = <<>>
    /\ Len(rrset.records) = 2
    /\ \E i \in DOMAIN rrset.records : rrset.records[i].ttl # newest.ttl
    /\ rrset.ttl = newest.ttl

\* set_ttl was called after the record inserted last had been removed
C29_SetTtlWitness ==
    /\ rpc = "live" /\ last_call.op = "set_ttl"
    /\ newest.tag = "Some" /\ ~HoldsNewest(rrset)
    /\ newest.set_ttl # <<>> /\ newest.set_ttl[1] # newest.ttl
    /\ rrset.ttl = newest.set_ttl[1]

\* C30: every call that changes the records of a set (insert, remove,
\* add_rdata, set_ttl, set_dns_class) leaves its rrsigs empty.
C30_ChangeClearsRrsigs ==
    /\ rpc = "live"
    /\ last_call.op \in {"insert", "remove", "add_rdata", "set_ttl", "set_dns_class"}
    /\ last_call.changed
    => rrset.rrsigs = <<>>

-----------------------------------------------------------------------------
(* Further properties of the chained catalog.                              *)

\* the authorities after position j that are left to consult
LeftToConsult(j) == {i \in (j + 1)..Len(chain) : i # producer_index}

\* C36: when a consult returns Skip the current result of the chain stays the
\* value it had before that call (the next consult is given it, the response
\* is built from it), and the consult phase goes on with the next authority
\* of the chain that is not the producer.
C36_SkipCannotOverwrite ==
    \A k \in 1..Len(calls) :
        calls[k].op = "consult" /\ calls[k].out.cf = "Skip" =>
            LET left == LeftToConsult(calls[k].idx) IN
            /\ k < Len(calls) =>
                  /\ calls[k + 1].op = "consult"
                  /\ calls[k + 1].prev = calls[k].prev
                  /\ calls[k + 1].idx \in left
                  /\ \A i \in left : calls[k + 1].idx <= i
            /\ k = Len(calls) =>
                  /\ lookup_result = calls[k].prev
                  /\ left = {} =>
                        /\ Answered
                        /\ responses[1] = BuildResponse(calls[k].prev, signer)
                  /\ left # {} =>
                        /\ pc \in {"consult", "panicked"}
                        /\ idx \in left
                        /\ \A i \in left : idx <= i

\* chain [A, B, C]: A produced Continue(Ok(X)), B's consult returned Skip and
\* C's consult was given Continue(Ok(X))
C36_Witness ==
    /\ Len(chain) = 3
    /\ Len(calls) = 3
    /\ calls[1].out = Continue(Ok(Records("search", 1)))
    /\ calls[2].op = "consult" /\ calls[2].idx = 2 /\ calls[2].out.cf = "Skip"
    /\ calls[3].op = "consult" /\ calls[3].idx = 3
    /\ calls[3].prev = Continue(Ok(Records("search", 1)))

\* the last consult returned Skip over an error: the response is the error
C36_LastWitness ==
    /\ pc = "done"
    /\ Len(calls) = 2
    /\ calls[1].out = Continue(Err(LookupErr("NXDomain")))
    /\ calls[2].op = "consult" /\ calls[2].out.cf = "Skip"
    /\ responses[1].rcode = "NXDomain"

-----------------------------------------------------------------------------
(* Further properties of the RecordSet.                                    *)

C37_RemoveWitness ==
    /\ rpc = "live" /\ last_call.op = "remove" /\ ~last_call.ret
    /\ last_call.serial # last_call.before.serial
    /\ last_call.before.records # <<>>
    /\ last_call.before.rrsigs # <<>>
    /\ record_type(last_call.record) = "A"
    /\ rrset = last_call.before

\* C38: no call of insert, add_rdata or remove leaves serial() lower than it
\* was before the call; stated here for the calls whose caller did not itself
\* give a lower serial (add_rdata takes no serial).
C38_SerialNeverDecreases ==
    rpc = "live" /\ Mutated
        /\ (last_call.op = "add_rdata" \/ last_call.serial >= last_call.before.serial)
    => rrset.serial >= last_call.before.serial

\* C39: no two records of the set have equal data, and a call of remove takes
\* away at most one record.
C39_RdataUnique ==
    rpc = "live" =>
        /\ \A i, j \in DOMAIN rrset.records :
              rrset.records[i].rd = rrset.records[j].rd => i = j
        /\ last_call.op = "remove" =>
              Len(rrset.records) >= Len(last_call.before.records) - 1

\* a record with the data of a held record and another TTL was inserted into
\* a set of two records
C39_Witness ==
    /\ rpc = "live" /\ last_call.op = "insert" /\ last_call.ret
    /\ Len(last_call.before.records) = 2
    /\ HeldData
    /\ Len(rrset.records) = 2

\* one of two records was removed
C39_RemoveWitness ==
    /\ rpc = "live" /\ last_call.op = "remove" /\ last_call.ret
    /\ Len(last_call.before.records) = 2
    /\ Len(rrset.records) = 1

-----------------------------------------------------------------------------
(* Properties of a recursor in a chain.                                    *)

\* the calls of a sequence whose return value the chain keeps
KeptOf(cs) == SelectSeq(cs, LAMBDA c : c.op = "consult" \/ c.out.cf # "Skip")

\* C32: the consult of an authority that does not override it returns the
\* LookupControlFlow it was given, variant and payload, and no signer; the
\* result and the signer of the chain after the call are those before it.
C32_DefaultConsultIdentity ==
    \A k \in 1..Len(calls) :
        calls[k].op = "consult" /\ chain[calls[k].idx] = "rec" =>
            /\ calls[k].out = calls[k].prev
            /\ calls[k].sig = None
            /\ k < Len(calls) => calls[k + 1].prev = calls[k].prev
            /\ k = Len(calls) =>
                  /\ lookup_result = calls[k].prev
                  /\ signer = LastSome(KeptOf(SubSeq(calls, 1, k - 1)))

\* chain [gen, rec]: the first authority answered with records and a signer,
\* the recursor was consulted, the response holds both
C32_Witness ==
    /\ chain = <<"gen", "rec">>
    /\ pc = "done"
    /\ Len(calls) = 2
    /\ calls[1].out = Continue(Ok(Records("search", 1)))
    /\ calls[1].sig = Some(<<"search", 1>>)
    /\ calls[2].op = "consult" /\ calls[2].idx = 2
    /\ responses[1].answers = <<Records("search", 1)>>
    /\ responses[1].signer = Some(<<"search", 1>>)

\* the recursor was consulted with an error and handed it on
C32_ErrWitness ==
    /\ chain = <<"gen", "rec", "gen">>
    /\ Len(calls) = 3
    /\ calls[1].out = Continue(Err(LookupErr("NXDomain")))
    /\ calls[2].op = "consult" /\ calls[2].idx = 2
    /\ calls[3].op = "consult" /\ calls[3].idx = 3
    /\ calls[3].prev = Continue(Err(LookupErr("NXDomain")))

C33_ResolvedWitness ==
    /\ chain = <<"gen", "rec">>
    /\ Len(calls) = 2
    /\ calls[1].out = Skip
    /\ calls[2].op = "search" /\ calls[2].out = Continue(Ok(Response(2)))
    /\ pc = "consult" /\ idx = 1

-----------------------------------------------------------------------------
(* Properties of LookupOptions.                                            *)

\* the DO flag of the request, false without EDNS
RequestDo == request_edns # None /\ request_edns[1].dnssec_ok

IsRrsig(record) == record_type(record) = "RRSIG"

\* C31 as stated: dnssec_ok is the DO flag of the request, and the iteration
\* yields the data records of the set in stored order, followed by its RRSIG
\* records exactly when dnssec_ok is true.
C31_RrsigsIffDnssecOk ==
    /\ opc \in {"records", "iter", "done"} => lookup_options.dnssec_ok = RequestDo
    /\ opc = "done" =>
          yielded = rrset.records \o
                      (IF lookup_options.dnssec_ok THEN rrset.rrsigs ELSE <<>>)

\* C31 (amended): in a build with the __dnssec feature dnssec_ok is the DO
\* flag of the request (false without EDNS), and false in any other build;
\* a set with no data record yields nothing; any other set yields its data
\* records in stored order, followed by its RRSIG records exactly when
\* dnssec_ok is true; with dnssec_ok false no RRSIG is yielded; the iteration
\* ends after at most as many items as the set holds.
C31_RrsigVisibility ==
    /\ opc \in {"records", "iter", "done"} =>
          lookup_options.dnssec_ok = (dnssec /\ RequestDo)
    /\ opc = "done" =>
          yielded = IF rrset.records = <<>> THEN <<>>
                    ELSE rrset.records \o
                           (IF lookup_options.dnssec_ok THEN rrset.rrsigs ELSE <<>>)
    /\ ~lookup_options.dnssec_ok => \A i \in DOMAIN yielded : ~IsRrsig(yielded[i])
    /\ Len(yielded) + Len(records_iter.rest) <= Len(rrset.records) + Len(rrset.rrsigs)

\* a request with DO set: two records, then the signature
C31_Witness ==
    /\ opc = "done"
    /\ dnssec /\ RequestDo
    /\ Len(rrset.records) = 2 /\ rrset.rrsigs # <<>>
    /\ Len(yielded) = 3 /\ IsRrsig(yielded[3])

\* a request without DO: the records only
C31_PlainWitness ==
    /\ opc = "done"
    /\ dnssec /\ request_edns = Some(EdnsWith(FALSE))
    /\ Len(rrset.records) = 2 /\ rrset.rrsigs # <<>>
    /\ yielded = rrset.records

\* a build without the feature: DO is set and the signature is not yielded
C31_BuildWitness ==
    /\ opc = "done"
    /\ ~dnssec /\ RequestDo
    /\ rrset.records # <<>> /\ rrset.rrsigs # <<>>
    /\ yielded = rrset.records

\* a signed set with no data record yields nothing
C31_EmptyWitness ==
    /\ opc = "done"
    /\ dnssec /\ RequestDo
    /\ rrset.records = <<>> /\ rrset.rrsigs # <<>>
    /\ yielded = <<>>

-----------------------------------------------------------------------------
(* Properties of DNS over HTTP/3.                                          *)

\* inner_send returned after the loop that reads the body
BodyRead == hpc = "done" /\ send_result.kind \notin {"bad headers", "recv_data"}

AtEndOfStream == body_pos = Len(http_response.body)

C34_ShortWitness ==
    /\ hpc = "done"
    /\ http_response.content_length = Length(3)
    /\ http_response.body = <<1, 1>>
    /\ is_success(http_response.status)
    /\ AtEndOfStream /\ response_bytes = 2
    /\ send_result.tag = "Err"

\* the announced length was received
C34_ExactWitness ==
    /\ hpc = "done"
    /\ http_response.content_length = Length(3)
    /\ http_response.body = <<1, 2>>
    /\ send_result.tag = "Ok"

\* no Content-Length: the whole body, of the most bytes, is accepted
C34_AbsentWitness ==
    /\ hpc = "done"
    /\ http_response.content_length = NoLength
    /\ Len(http_response.body) = 2 /\ response_bytes = MaxBody
    /\ send_result.tag = "Ok"

\* C35: a response whose status is not 2xx gives an error and its body is
\* not decoded; a 2xx response (that passed the length check) without
\* Content-Type or with application/dns-message is decoded, and the message
\* is returned whatever its response code; a 2xx response with another
\* Content-Type gives an error.
C35_StatusHandling ==
    hpc = "done" =>
        /\ ~is_success(http_response.status) =>
              send_result.tag = "Err" /\ ~send_result.parsed
        /\ /\ is_success(http_response.status)
           /\ http_response.content_type \in {"absent", MIME_APPLICATION_DNS}
           /\ BodyRead
           /\ send_result.kind # "length"
           => /\ send_result.parsed
              /\ http_response.payload.valid =>
                    send_result = SendOk(http_response.payload.rcode)
        /\ /\ is_success(http_response.status)
           /\ http_response.content_type \notin {"absent", MIME_APPLICATION_DNS}
           => send_result.tag = "Err" /\ ~send_result.parsed

\* 200 without Content-Type and a message with response code ServFail
C35_Witness ==
    /\ hpc = "done"
    /\ http_response.status = 200
    /\ http_response.content_type = "absent"
    /\ http_response.payload = [valid |-> TRUE, rcode |-> "ServFail"]
    /\ send_result = SendOk("ServFail")

\* 404 with a body that is a DNS message
C35_ErrorStatusWitness ==
    /\ hpc = "done"
    /\ http_response.status = 404
    /\ http_response.content_type = MIME_APPLICATION_DNS
    /\ http_response.payload.valid
    /\ response_bytes = BodyLen(http_response.body) /\ response_bytes > 0
    /\ send_result = SendErr("http", FALSE)

\* 204 with Content-Type text/plain
C35_ContentTypeWitness ==
    /\ hpc = "done"
    /\ http_response.status = 204
    /\ http_response.content_type = "text/plain"
    /\ send_result = SendErr("content type", FALSE)

\* C40: a handle on which shutdown() was called has is_shutdown() true ever
\* after, every poll of it yields None and send_message on it panics and
\* hands no request to the connection; a poll of a handle that is not shut
\* down yields Ok while the shutdown channel is open and an error once it is
\* closed.
C40_ShutdownLifecycle ==
    /\ \A h \in shut_called : H3ClientStream_is_shutdown(handles[h])
    /\ h_call.op = "is_shutdown" /\ h_call.h \in shut_called => h_call.ret = TRUE
    /\ h_call.op = "poll_next" =>
          /\ h_call.h \in shut_called => h_call.ret = "None"
          /\ ~h_call.was_shutdown =>
                h_call.ret = IF h_call.was_closed THEN "Err" ELSE "Ok"
    /\ h_call.op = "send_message" /\ h_call.h \in shut_called =>
          /\ h_call.ret = "panic"
          /\ spc = "panicked"
          /\ transmitted = h_call.had_transmitted

\* a handle shut down after the channel was closed is polled: None
C40_Witness ==
    /\ h_call.op = "poll_next" /\ h_call.h \in shut_called
    /\ h_call.was_closed
    /\ h_call.ret = "None"

\* the clone of a handle is polled after the other was shut down
C40_CloneWitness ==
    /\ Len(handles) = 2 /\ shut_called = {1}
    /\ h_call.op = "poll_next" /\ h_call.h = 2
    /\ h_call.was_closed
    /\ h_call.ret = "Err"

\* send_message on a handle that was shut down
C40_SendWitness ==
    /\ h_call.op = "send_message" /\ h_call.h \in shut_called
    /\ transmitted = 1
    /\ spc = "panicked"

=============================================================================
